---- MODULE Spec2Model ----
(***************************************************************************)
(* Model of the LinkedIn outreach dashboard: the Send_Message builder      *)
(* (lib/google-sheets), the message-approval update endpoint               *)
(* (api/message/update) and the client handler that drives it              *)
(* (components/DashboardClient).                                           *)
(*                                                                         *)
(* A JavaScript string is modelled as the sequence of its characters, so   *)
(* that trim, toLowerCase and includes are computed, not assumed.          *)
(***************************************************************************)
EXTENDS Integers, Sequences, FiniteSets, TLC

VARIABLES
    sheet,                  \* the data rows of the live Send_Message tab
    scriptUrl,              \* process.env.GOOGLE_APPS_SCRIPT_URL ("" when unset)
    localSendMessageData,   \* client state: the message entries shown
    updatingMessageId,      \* client state: the in-flight marker (a rowId or null)
    requests,               \* update requests between the client and the endpoint
    sinkWrites,             \* the write requests issued to the mutation sink
    calls,                  \* invocations of handleMessageApprovalUpdate so far
    lastCall,               \* the arguments of the last invocation
    posts,                  \* requests sent to the endpoint by other callers so far
    changes,                \* edits made to the sheet by the external system so far
    limits,                 \* how many rows, calls, posts and edits this run allows
    input,                  \* arguments handed to the pure functions under check
    output                  \* what the pure functions returned for them

vars == << sheet, scriptUrl, localSendMessageData, updatingMessageId, requests,
          sinkWrites, calls, lastCall, posts, changes, limits, input, output >>

\* the variables of the update workflow
flowVars == << sheet, scriptUrl, localSendMessageData, updatingMessageId, requests,
              sinkWrites, calls, lastCall, posts, changes, limits >>

(***************************************************************************)
(* JavaScript string primitives                                            *)
(***************************************************************************)
Upper == <<"A","B","C","D","E","F","G","H","I","J","K","L","M",
           "N","O","P","Q","R","S","T","U","V","W","X","Y","Z">>
Lower == <<"a","b","c","d","e","f","g","h","i","j","k","l","m",
           "n","o","p","q","r","s","t","u","v","w","x","y","z">>
UpperSet == {Upper[i] : i \in DOMAIN Upper}
LowerMap == [c \in UpperSet |-> Lower[CHOOSE i \in DOMAIN Upper : Upper[i] = c]]

\* String.prototype.toLowerCase
toLowerCase(s) == [i \in 1..Len(s) |-> IF s[i] \in UpperSet THEN LowerMap[s[i]] ELSE s[i]]

WhiteSpace == {" ", "\t", "\n", "\r"}

\* String.prototype.trim
trim(s) ==
    LET kept == {i \in 1..Len(s) : s[i] \notin WhiteSpace}
    IN  IF kept = {} THEN << >>
        ELSE SubSeq(s, CHOOSE i \in kept : \A j \in kept : i <= j,
                       CHOOSE i \in kept : \A j \in kept : j <= i)

\* String.prototype.includes
includes(s, sub) ==
    \E i \in 0..(Len(s) - Len(sub)) : SubSeq(s, i + 1, i + Len(sub)) = sub

\* Array.prototype.findIndex: the 0-based index of the first element that
\* satisfies P, or -1
findIndex(arr, P(_)) ==
    LET hits == {i \in 1..Len(arr) : P(arr[i])}
    IN  IF hits = {} THEN -1 ELSE (CHOOSE i \in hits : \A j \in hits : i <= j) - 1

\* useState<number | null>(null): null as a rowId, which is 1 or more
null == 0

\* the value null; no string, since every element of a string is one character
NULL == <<"null">>

\* JavaScript truthiness of a string-or-null value
truthy(v) == v # NULL /\ v # <<>>

\* a || b on string-or-null values
orElse(a, b) == IF truthy(a) THEN a ELSE b

\* arr[index] || '' for a 0-based index that may be out of range (undefined)
cellOrEmpty(row, index) ==
    IF index + 1 \in 1..Len(row) THEN row[index + 1] ELSE <<>>

(***************************************************************************)
(* lib/google-sheets: getCell                                              *)
(***************************************************************************)
\* the synonym table of getCell
variations(normalizedName) ==
    CASE normalizedName = <<"a","b","o","u","t">> ->
           << <<"a","b","o","u","t"," ","s","e","c","t","i","o","n">>, <<"a","b","o","u","t"," ","m","e">>, <<"p","r","o","f","i","l","e"," ","a","b","o","u","t">>, <<"b","i","o">>, <<"s","u","m","m","a","r","y">>,
              <<"d","e","s","c","r","i","p","t","i","o","n">>, <<"a","b","o","u","t","_","m","e">>, <<"a","b","o","u","t","s","e","c","t","i","o","n">> >>
      [] normalizedName = <<"f","i","r","s","t"," ","n","a","m","e">> ->
           << <<"f","i","r","s","t","n","a","m","e">>, <<"f","i","r","s","t","_","n","a","m","e">>, <<"f","n","a","m","e">>, <<"f","i","r","s","t"," ","n","a","m","e">>, <<"f","i","r","s","t","n","a","m","e">> >>
      [] normalizedName = <<"l","a","s","t"," ","n","a","m","e">> ->
           << <<"l","a","s","t","n","a","m","e">>, <<"l","a","s","t","_","n","a","m","e">>, <<"l","n","a","m","e">>, <<"s","u","r","n","a","m","e">>, <<"l","a","s","t"," ","n","a","m","e">>, <<"l","a","s","t","n","a","m","e">> >>
      [] normalizedName = <<"l","i","n","k","e","d","i","n"," ","p","o","s","t">> ->
           << <<"l","i","n","k","e","d","i","n","_","p","o","s","t">>, <<"p","o","s","t"," ","u","r","l">>, <<"p","o","s","t","_","u","r","l">>, <<"l","i","n","k","e","d","i","n"," ","u","r","l">>,
              <<"l","i","n","k","e","d","i","n"," ","p","o","s","t">>, <<"p","o","s","t","u","r","l">> >>
      [] normalizedName = <<"l","i","n","k","e","d","i","n"," ","p","o","s","t"," ","u","s","e","r">> ->
           << <<"l","i","n","k","e","d","i","n","_","p","o","s","t","_","u","s","e","r">>, <<"p","o","s","t"," ","u","s","e","r">>, <<"p","o","s","t","_","u","s","e","r">>,
              <<"l","i","n","k","e","d","i","n"," ","p","o","s","t"," ","u","s","e","r">>, <<"p","o","s","t","u","s","e","r">> >>
      [] normalizedName = <<"e","n","g","a","g","e","m","e","n","t"," ","t","y","p","e">> ->
           << <<"e","n","g","a","g","e","m","e","n","t","_","t","y","p","e">>, <<"e","n","g","a","g","e","m","e","n","t">>, <<"t","y","p","e">>, <<"e","n","g","a","g","e","m","e","n","t"," ","t","y","p","e">>,
              <<"e","n","g","a","g","e","m","e","n","t","t","y","p","e">> >>
      [] normalizedName = <<"c","o","m","m","e","n","t"," ","t","e","x","t">> ->
           << <<"c","o","m","m","e","n","t","_","t","e","x","t">>, <<"c","o","m","m","e","n","t">>, <<"c","o","m","m","e","n","t","s">>, <<"c","o","m","m","e","n","t"," ","t","e","x","t">>, <<"c","o","m","m","e","n","t","t","e","x","t">> >>
      [] normalizedName = <<"p","r","o","f","i","l","e"," ","u","r","l">> ->
           << <<"p","r","o","f","i","l","e","_","u","r","l">>, <<"p","r","o","f","i","l","e"," ","u","r","l">>, <<"l","i","n","k","e","d","i","n"," ","p","r","o","f","i","l","e">>, <<"p","r","o","f","i","l","e"," ","l","i","n","k">>,
              <<"p","r","o","f","i","l","e","u","r","l">>, <<"p","r","o","f","i","l","e","_","l","i","n","k">> >>
      [] normalizedName = <<"p","o","s","t"," ","t","o","p","i","c">> ->
           << <<"p","o","s","t","_","t","o","p","i","c">>, <<"t","o","p","i","c">>, <<"p","o","s","t"," ","t","o","p","i","c">>, <<"p","o","s","t","t","o","p","i","c">> >>
      [] normalizedName = <<"c","o","m","p","a","n","y">> ->
           << <<"c","o","m","p","a","n","y">>, <<"c","o","m","p">>, <<"o","r","g","a","n","i","z","a","t","i","o","n">>, <<"o","r","g">>, <<"o","r","g","a","n","i","s","a","t","i","o","n">> >>
      [] normalizedName = <<"r","o","l","e">> ->
           << <<"r","o","l","e">>, <<"t","i","t","l","e">>, <<"p","o","s","i","t","i","o","n">>, <<"j","o","b"," ","t","i","t","l","e">>, <<"j","o","b","_","t","i","t","l","e">>, <<"j","o","b","t","i","t","l","e">> >>
      [] normalizedName = <<"h","e","a","d","l","i","n","e">> ->
           << <<"h","e","a","d","l","i","n","e">>, <<"h","e","a","d"," ","l","i","n","e">>, <<"h","e","a","d","_","l","i","n","e">>, <<"h","e","a","d","l","i","n","e">> >>
      [] normalizedName = <<"p","o","s","t","_","u","r","l">> ->
           << <<"p","o","s","t","_","u","r","l">>, <<"p","o","s","t"," ","u","r","l">>, <<"p","o","s","t","u","r","l">>, <<"l","i","n","k","e","d","i","n"," ","p","o","s","t"," ","u","r","l">> >>
      [] normalizedName = <<"s","h","e","e","t","_","l","i","n","k">> ->
           << <<"s","h","e","e","t","_","l","i","n","k">>, <<"s","h","e","e","t"," ","l","i","n","k">>, <<"s","h","e","e","t","l","i","n","k">> >>
      [] OTHER -> << >>

\* the column getCell reads for columnName: 0-based, -1 when no header matches
getCellIndex(headers, columnName) ==
    LET normalizedName == trim(toLowerCase(columnName))
        \* h.toLowerCase().trim() of every header ("" stays "", which h && rules out)
        normalizedHeaders == [i \in 1..Len(headers) |-> trim(toLowerCase(headers[i]))]
        positions == [i \in 1..Len(headers) |-> i]
        exact     == findIndex(positions, LAMBDA i :
                         headers[i] # << >> /\ normalizedHeaders[i] = normalizedName)
        partial   == findIndex(positions, LAMBDA i :
                         headers[i] # << >>
                         /\ (\/ includes(normalizedHeaders[i], normalizedName)
                             \/ includes(normalizedName, normalizedHeaders[i])))
        variationsList == variations(normalizedName)
        byVariation(v) == findIndex(positions, LAMBDA i :
                         headers[i] # << >>
                         /\ (\/ normalizedHeaders[i] = v
                             \/ includes(normalizedHeaders[i], v)
                             \/ includes(v, normalizedHeaders[i])))
        hits      == {n \in 1..Len(variationsList) : byVariation(variationsList[n]) # -1}
    IN  IF exact # -1 THEN exact
        ELSE IF partial # -1 THEN partial
        ELSE IF hits # {}
             THEN byVariation(variationsList[CHOOSE n \in hits : \A m \in hits : n <= m])
             ELSE -1

\* getCell(row, headers, columnName): the trimmed cell, or null
cellAt(row, index) ==
    IF index = -1 THEN NULL
    ELSE IF index + 1 \in 1..Len(row) /\ row[index + 1] # <<>>
         THEN trim(row[index + 1])
         ELSE NULL

getCell(row, headers, columnName) == cellAt(row, getCellIndex(headers, columnName))

(***************************************************************************)
(* lib/google-sheets: fetchSendMessageData, on the decoded export          *)
(***************************************************************************)
\* row.every(cell => !cell || cell.trim() === '')
isEmptyRow(row) == \A c \in 1..Len(row) : row[c] = <<>> \/ trim(row[c]) = <<>>

\* a normalisation that compares the cell as it is written
normalizeApprovalAsWritten(cell) ==
    LET approvalValue == trim(orElse(cell, <<"a","p","p","r","o","v","a","l">>))
    IN  IF approvalValue \in {<<"a","p","p","r","o","v","e">>, <<"a","p","p","r","o","v","e","d">>, <<"a","p","p","r","o","v","a","l">>} THEN "approval"
        ELSE IF approvalValue \in {<<"r","e","j","e","c","t">>, <<"r","e","j","e","c","t","e","d">>} THEN "reject"
        ELSE IF approvalValue = <<"s","e","n","t">> THEN "sent"
        ELSE "approval"

\* the normalisation of the Approval cell to 'approval' | 'reject' | 'sent'
normalizeApproval(cell) ==
    LET approvalValue == trim(toLowerCase(orElse(cell, <<"a","p","p","r","o","v","a","l">>)))
    IN  IF approvalValue \in {<<"a","p","p","r","o","v","e">>, <<"a","p","p","r","o","v","e","d">>, <<"a","p","p","r","o","v","a","l">>} THEN "approval"
        ELSE IF approvalValue \in {<<"r","e","j","e","c","t">>, <<"r","e","j","e","c","t","e","d">>} THEN "reject"
        ELSE IF approvalValue = <<"s","e","n","t">> THEN "sent"
        ELSE "approval"

\* the builder's admission test: if (firstName || lastName || profileUrl)
sendMessageAdmits(row, headers) ==
    /\ ~isEmptyRow(row)
    /\ \/ truthy(orElse(getCell(row, headers, <<"F","i","r","s","t"," ","N","a","m","e">>), <<>>))
       \/ truthy(orElse(getCell(row, headers, <<"L","a","s","t"," ","N","a","m","e">>), <<>>))
       \/ truthy(orElse(getCell(row, headers, <<"P","r","o","f","i","l","e"," ","U","R","L">>), <<>>))

\* the 0-based indices i of rows[i] from which the builder pushes an entry,
\* in loop order (for i = 1; i < rows.length; i++)
sendMessageAdmitted(rows) ==
    SelectSeq([n \in 1..(Len(rows) - 1) |-> n],
              LAMBDA i : sendMessageAdmits(rows[i + 1], rows[1]))

\* the SendMessageEntry pushed for an admitted row (Headline and Company,
\* which the write path never reads, are left out)
sendMessageEntry(row, headers, rowCounter) ==
    [ rowId        |-> rowCounter,
      LinkedinPost |-> orElse(orElse(getCell(row, headers, <<"L","i","n","k","e","d","i","n"," ","P","o","s","t">>),
                                     getCell(row, headers, <<"L","i","n","k","e","d","I","n"," ","P","o","s","t">>)), <<>>),
      FirstName    |-> orElse(getCell(row, headers, <<"F","i","r","s","t"," ","N","a","m","e">>), <<>>),
      LastName     |-> orElse(getCell(row, headers, <<"L","a","s","t"," ","N","a","m","e">>), <<>>),
      ProfileURL   |-> orElse(getCell(row, headers, <<"P","r","o","f","i","l","e"," ","U","R","L">>), <<>>),
      Approval     |-> normalizeApproval(getCell(row, headers, <<"A","p","p","r","o","v","a","l">>)) ]

\* fetchSendMessageData after parseCSV: the entries, rowId = 1, 2, ...
fetchSendMessageData(rows) ==
    IF Len(rows) = 0 \/ Len(rows) = 1 THEN << >>
    ELSE LET admitted == sendMessageAdmitted(rows)
         IN  [k \in 1..Len(admitted) |->
                 sendMessageEntry(rows[admitted[k] + 1], rows[1], k)]

(***************************************************************************)
(* api/message/update: the row walk of POST                                *)
(***************************************************************************)
approvalColumnIndex(headers) ==
    findIndex(headers, LAMBDA h : h # <<>> /\ includes(trim(toLowerCase(h)), <<"a","p","p","r","o","v","a","l">>))

firstNameCol(headers) ==
    findIndex(headers, LAMBDA h : h # <<>> /\ includes(toLowerCase(h), <<"f","i","r","s","t"," ","n","a","m","e">>))

lastNameCol(headers) ==
    findIndex(headers, LAMBDA h : h # <<>> /\ includes(toLowerCase(h), <<"l","a","s","t"," ","n","a","m","e">>))

profileUrlCol(headers) ==
    findIndex(headers, LAMBDA h : h # <<>> /\ includes(toLowerCase(h), <<"p","r","o","f","i","l","e"," ","u","r","l">>))

linkedInPostCol(headers) ==
    findIndex(headers, LAMBDA h :
        h # <<>> /\ (\/ includes(toLowerCase(h), <<"l","i","n","k","e","d","i","n"," ","p","o","s","t">>)
                     \/ includes(toLowerCase(h), <<"l","i","n","k","e","d","i","n","_","p","o","s","t">>)))

\* the columns POST looks up once, before its loop
postColumns(headers) ==
    [firstNameCol  |-> firstNameCol(headers),
     lastNameCol   |-> lastNameCol(headers),
     profileUrlCol |-> profileUrlCol(headers)]

(***************************************************************************)
(* The header rows of the exports                                          *)
(***************************************************************************)
\* the header row of the Send_Message tab
SheetHeaders ==
    << <<"L","i","n","k","e","d","i","n"," ","P","o","s","t">>, <<"F","i","r","s","t"," ","N","a","m","e">>, <<"L","a","s","t"," ","N","a","m","e">>, <<"P","r","o","f","i","l","e"," ","U","R","L">>, <<"A","p","p","r","o","v","a","l">> >>

\* the header rows tried on the two admission walks
WalkHeaders ==
    { << <<"F","i","r","s","t"," ","N","a","m","e">>, <<"L","a","s","t"," ","N","a","m","e">>, <<"P","r","o","f","i","l","e"," ","U","R","L">>, <<"A","p","p","r","o","v","a","l">> >>,
      << <<"F","i","r","s","t","_","N","a","m","e">>, <<"L","a","s","t","_","N","a","m","e">>, <<"P","r","o","f","i","l","e","_","U","R","L">>, <<"A","p","p","r","o","v","a","l">> >>,
      << <<"N","a","m","e">>, <<"P","r","o","f","i","l","e"," ","U","R","L">>, <<"A","p","p","r","o","v","a","l">> >>,
      << <<"M","y"," ","F","i","r","s","t"," ","N","a","m","e">>, <<"F","i","r","s","t"," ","N","a","m","e">>, <<"A","p","p","r","o","v","a","l">> >>,
      << <<"F","I","R","S","T"," ","N","A","M","E"," ">>, <<" ","L","a","s","t"," ","n","a","m","e">>, <<"a","p","p","r","o","v","a","l"," ","s","t","a","t","u","s">> >>,
      << <<"F","i","r","s","t"," ","N","a","m","e">>, <<"L","a","s","t"," ","N","a","m","e">>, <<"P","r","o","f","i","l","e"," ","U","R","L">> >>,
      << <<"L","i","n","k","e","d","i","n"," ","P","o","s","t">>, <<"L","a","s","t"," ","N","a","m","e">>, <<"A","p","p","r","o","v","a","l">> >> }

\* header rows of the exports a write is prepared on: the columns of the
\* cross-check, and two columns whose names contain 'approval'
WriteHeaders ==
    { << <<"L","i","n","k","e","d","i","n"," ","P","o","s","t">>, <<"F","i","r","s","t"," ","N","a","m","e">>, <<"L","a","s","t"," ","N","a","m","e">>, <<"A","p","p","r","o","v","a","l">> >>,
      << <<"A","p","p","r","o","v","a","l"," ","N","o","t","e","s">>, <<"F","i","r","s","t"," ","N","a","m","e">>, <<"A","p","p","r","o","v","a","l">> >>,
      << <<"F","i","r","s","t"," ","N","a","m","e">>, <<"a","p","p","r","o","v","a","l"," ","s","t","a","t","u","s">>, <<"P","r","o","f","i","l","e"," ","U","R","L">> >> }

HeaderRows == WalkHeaders \cup { SheetHeaders } \cup WriteHeaders

\* POST looks its columns up once per request, before its loop: the lookups
\* on each header row
postApprovalColumn == [headers \in HeaderRows |-> approvalColumnIndex(headers)]
postColumnsOf == [headers \in HeaderRows |-> postColumns(headers)]

\* the column the builder reads the approval from, on each header row
builderApprovalColumn == [headers \in HeaderRows |-> getCellIndex(headers, <<"A","p","p","r","o","v","a","l">>)]

\* the endpoint's admission test for one data row
postCounts(row, cols) ==
    LET rowFirstName  == IF cols.firstNameCol # -1
                         THEN trim(cellOrEmpty(row, cols.firstNameCol)) ELSE << >>
        rowLastName   == IF cols.lastNameCol # -1
                         THEN trim(cellOrEmpty(row, cols.lastNameCol)) ELSE << >>
        rowProfileUrl == IF cols.profileUrlCol # -1
                         THEN trim(cellOrEmpty(row, cols.profileUrlCol)) ELSE << >>
    IN  /\ ~isEmptyRow(row)
        /\ rowFirstName # << >> \/ rowLastName # << >> \/ rowProfileUrl # << >>

\* the loop "for (let i = 1; i < rows.length; i++)" from index i on, with
\* entryCounter admitted rows seen so far: targetRowIndex (i + 1), or -1
RECURSIVE postWalk(_, _, _, _, _)
postWalk(rows, cols, rowIdNum, i, entryCounter) ==
    IF i >= Len(rows) THEN -1
    ELSE IF postCounts(rows[i + 1], cols)
         THEN IF entryCounter + 1 = rowIdNum THEN i + 1
              ELSE postWalk(rows, cols, rowIdNum, i + 1, entryCounter + 1)
         ELSE postWalk(rows, cols, rowIdNum, i + 1, entryCounter)

\* a resolution that clamps to the last row when the ordinal is not reached
postResolveClamped(rows, rowIdNum) ==
    IF Len(rows) < 2 THEN [error |-> "NoDataRows", targetRowIndex |-> -1]
    ELSE IF postApprovalColumn[rows[1]] = -1
         THEN [error |-> "ApprovalColumnNotFound", targetRowIndex |-> -1]
    ELSE IF rowIdNum < 1 THEN [error |-> "InvalidRowId", targetRowIndex |-> -1]
    ELSE LET targetRowIndex == postWalk(rows, postColumnsOf[rows[1]], rowIdNum, 1, 0)
         IN  [error |-> "none",
              targetRowIndex |-> IF targetRowIndex = -1 THEN Len(rows) ELSE targetRowIndex]

\* the part of POST between parseCSV and the script URL check: the sheet row
\* to write, or the error thrown
postResolve(rows, rowIdNum) ==
    IF Len(rows) < 2 THEN [error |-> "NoDataRows", targetRowIndex |-> -1]
    ELSE IF Len(rows[1]) = 0 THEN [error |-> "NoHeaders", targetRowIndex |-> -1]
    ELSE IF postApprovalColumn[rows[1]] = -1
         THEN [error |-> "ApprovalColumnNotFound", targetRowIndex |-> -1]
    ELSE IF rowIdNum < 1 THEN [error |-> "InvalidRowId", targetRowIndex |-> -1]
    ELSE LET targetRowIndex == postWalk(rows, postColumnsOf[rows[1]], rowIdNum, 1, 0)
         IN  IF targetRowIndex = -1
             THEN [error |-> "RowNotFound", targetRowIndex |-> -1]
             ELSE IF targetRowIndex > Len(rows)
                  THEN [error |-> "RowDoesNotExist", targetRowIndex |-> targetRowIndex]
                  ELSE [error |-> "none", targetRowIndex |-> targetRowIndex]

(***************************************************************************)
(* Bounds                                                                  *)
(***************************************************************************)
\* data rows of an export handed to the two walks
MaxWalkRows == 2
\* data rows of the Send_Message tab, handler calls and external edits in
\* the update workflow
MaxRows == 1
MaxCalls == 1
MaxChanges == 1
\* the same for the messages table with several entries
MaxTableRows == 2
MaxTableCalls == 2
\* handler calls that let two updates of one entry overlap
MaxOverlapCalls == 3
\* calls of the handler under any arguments
MaxHandlerCalls == 2
\* requests sent to the endpoint by callers other than the dashboard
MaxPosts == 1

NoCall == [entryApproval |-> "approval", newApproval |-> "approval"]

NoLimits == [rows |-> 0, calls |-> 0, posts |-> 0, changes |-> 0]

\* the update workflow at rest, in the runs that only apply pure functions
FlowIdle ==
    /\ sheet = << >>
    /\ scriptUrl = << >>
    /\ localSendMessageData = << >>
    /\ updatingMessageId = null
    /\ requests = {}
    /\ sinkWrites = {}
    /\ calls = 0
    /\ lastCall = NoCall
    /\ posts = 0
    /\ changes = 0
    /\ limits = NoLimits

(***************************************************************************)
(* The two admission walks, applied to bounded exports                     *)
(***************************************************************************)
WalkCells == { << >>, <<"x">> }

\* the data rows tried under a header row: every filling of its columns,
\* a whitespace-only row and a row shorter than the header
WalkRows(headers) ==
    [1..Len(headers) -> WalkCells]
        \cup { [c \in 1..Len(headers) |-> <<" ">>], << <<"x">> >> }

RECURSIVE WalkGrids(_, _)
WalkGrids(headers, n) ==
    IF n = 0 THEN { << headers >> }
    ELSE WalkGrids(headers, n - 1)
            \cup { Append(g, r) : g \in { h \in WalkGrids(headers, n - 1) : Len(h) = n },
                                  r \in WalkRows(headers) }

NoOutput == [loaded |-> FALSE, entries |-> << >>, resolved |-> FALSE,
             result |-> [error |-> "none", targetRowIndex |-> -1]]

InitWalk ==
    /\ \E headers \in WalkHeaders :
         input \in [rows : WalkGrids(headers, MaxWalkRows), rowId : 1..(MaxWalkRows + 1)]
    /\ output = NoOutput
    /\ FlowIdle

\* the dashboard load builds the entries from the export
WalkLoad ==
    /\ ~output.loaded
    /\ output' = [output EXCEPT !.loaded = TRUE,
                                !.entries = fetchSendMessageData(input.rows)]
    /\ UNCHANGED << input, flowVars >>

\* the endpoint resolves the requested ordinal on the same export
WalkResolve ==
    /\ ~output.resolved
    /\ output' = [output EXCEPT !.resolved = TRUE,
                                !.result = postResolve(input.rows, input.rowId)]
    /\ UNCHANGED << input, flowVars >>

NextWalk == WalkLoad \/ WalkResolve

SpecWalk == InitWalk /\ [][NextWalk]_vars

(***************************************************************************)
(* api/message/update: POST                                                *)
(***************************************************************************)
validApprovals == {"approval", "reject", "sent"}

\* the two validations of POST that answer 400 before any fetch: the error,
\* or "none" (a missing field is 0 or "")
postValidate(body) ==
    IF body.rowId = 0 \/ body.approval = "" THEN "MissingFields"
    ELSE IF body.approval \notin validApprovals THEN "InvalidApproval"
    ELSE "none"

\* approvalMap[approval] || approval
approvalMap(approval) ==
    CASE approval = "approval" -> <<"A","p","p","r","o","v","e","d">>
      [] approval = "reject"   -> <<"R","e","j","e","c","t","e","d">>
      [] approval = "sent"     -> <<"S","e","n","t">>
      [] OTHER                 -> <<"b","o","g","u","s">>

NoWrite == [row |-> 0, column |-> 0, value |-> << >>]

\* a preparation that goes on to write when no script URL is configured
postPrepareFallback(rows, body, url) ==
    LET found == postResolve(rows, body.rowId)
    IN  IF found.error # "none" THEN [error |-> found.error, write |-> NoWrite]
        ELSE [error |-> "none",
              write |-> [row    |-> found.targetRowIndex,
                         column |-> postApprovalColumn[rows[1]] + 1,
                         value  |-> approvalMap(body.approval)]]

\* a preparation that sends the index of the approval column as it found it
postPrepareColumnIndex(rows, body, url) ==
    LET found == postResolve(rows, body.rowId)
    IN  IF found.error # "none" THEN [error |-> found.error, write |-> NoWrite]
        ELSE IF url = << >> THEN [error |-> "NotConfigured", write |-> NoWrite]
        ELSE [error |-> "none",
              write |-> [row    |-> found.targetRowIndex,
                         column |-> postApprovalColumn[rows[1]],
                         value  |-> approvalMap(body.approval)]]

\* POST from the parsed export to the call of the sink: the error thrown, or
\* the updateData (row, column, value) to send
postPrepare(rows, body, url) ==
    LET found == postResolve(rows, body.rowId)
    IN  IF found.error # "none" THEN [error |-> found.error, write |-> NoWrite]
        ELSE IF url = << >> THEN [error |-> "NotConfigured", write |-> NoWrite]
        ELSE [error |-> "none",
              write |-> [row    |-> found.targetRowIndex,
                         column |-> postApprovalColumn[rows[1]] + 1,
                         value  |-> approvalMap(body.approval)]]

\* what POST can observe of the sink's answer: scriptResponse.ok, whether
\* JSON.parse succeeds, the parsed value (null, its success and error fields)
\* and, of an unparsable text, whether it holds an HTML marker or the words
\* 'error' / 'exception'
SinkReplies ==
    { reply \in [ok : BOOLEAN, parses : BOOLEAN, isNull : BOOLEAN,
                 success : {"true", "false", "absent"}, error : BOOLEAN,
                 html : BOOLEAN, errorToken : BOOLEAN] :
        \* only a parsed value is null or has fields, and null has none
        /\ reply.isNull => reply.parses
        /\ (~reply.parses \/ reply.isNull) => (reply.success = "absent" /\ ~reply.error)
        /\ reply.isNull => (~reply.html /\ ~reply.errorToken) }

\* the answers the sink gives in the update workflow: done, refused by the
\* script, an error page, the web app unreachable
FlowReplies ==
    { [ok |-> TRUE,  parses |-> TRUE,  isNull |-> FALSE, success |-> "true",
       error |-> FALSE, html |-> FALSE, errorToken |-> FALSE],
      [ok |-> TRUE,  parses |-> TRUE,  isNull |-> FALSE, success |-> "false",
       error |-> TRUE,  html |-> FALSE, errorToken |-> TRUE],
      [ok |-> TRUE,  parses |-> FALSE, isNull |-> FALSE, success |-> "absent",
       error |-> FALSE, html |-> TRUE,  errorToken |-> FALSE],
      [ok |-> FALSE, parses |-> FALSE, isNull |-> FALSE, success |-> "absent",
       error |-> FALSE, html |-> TRUE,  errorToken |-> TRUE] }

NoReply == [ok |-> FALSE, parses |-> FALSE, isNull |-> FALSE, success |-> "absent",
            error |-> FALSE, html |-> FALSE, errorToken |-> FALSE]

\* an interpretation that takes every unparsable 2xx answer for a success
postInterpretLenient(reply) ==
    IF ~reply.ok THEN "ScriptExecutionFailed"
    ELSE IF ~reply.parses THEN "none"
    ELSE IF reply.isNull THEN "TypeError"
    ELSE IF reply.success = "false" THEN "ScriptFailure"
    ELSE IF reply.success = "absent" /\ reply.error THEN "ScriptFailure"
    ELSE "none"

\* POST from the sink's answer to its own: the error thrown, or "none"
postInterpret(reply) ==
    IF ~reply.ok THEN "ScriptExecutionFailed"
    ELSE IF ~reply.parses
         THEN IF reply.html THEN "ScriptErrorPage"
              ELSE IF reply.errorToken THEN "ScriptError"
              ELSE "none"
    ELSE IF reply.isNull THEN "TypeError"
    ELSE IF reply.success = "false" THEN "ScriptFailure"
    ELSE IF reply.success = "absent" /\ reply.error THEN "ScriptFailure"
    ELSE "none"

\* the NextResponse of POST: 400 for a validation error, 500 for an error
\* thrown, 200 with success: true otherwise
postResponse(status, error) == [status |-> status, error |-> error]

NoResponse == postResponse(0, "none")

\* the response of POST once the sink has answered: success: true with 200,
\* or the error caught with 500
postSinkResponse(reply) ==
    postResponse(IF postInterpret(reply) = "none" THEN 200 ELSE 500, postInterpret(reply))

(***************************************************************************)
(* The mutation sink (Google Apps Script web app), an external collaborator*)
(***************************************************************************)
\* the sink performs the write exactly when its answer carries no failure
sinkApplies(reply) == postInterpret(reply) = "none"

\* the sheet after the sink has set the cell (row, column), both 1-based
sinkSetValue(rows, write) ==
    IF write.row \in 1..Len(rows) /\ write.column \in 1..Len(rows[write.row])
    THEN [rows EXCEPT ![write.row][write.column] = write.value]
    ELSE rows

\* the approval state the builder reads from sheet row n (1-based)
approvalOfRow(rows, n) ==
    IF n \in 2..Len(rows)
    THEN normalizeApproval(cellAt(rows[n], builderApprovalColumn[rows[1]]))
    ELSE "approval"

(***************************************************************************)
(* components/DashboardClient: handleMessageApprovalUpdate                 *)
(***************************************************************************)
\* a handler that checks the target state only
handlerRejectsTarget(entry, newApproval) == newApproval = "sent"

\* a handler that checks the entry's state only
handlerRejectsEntry(entry, newApproval) == entry.Approval = "sent"

\* the two guards at the top of the handler
handlerRejects(entry, newApproval) ==
    newApproval = "sent" \/ entry.Approval = "sent"

\* prev.map(msg => msg.rowId === rowId ? { ...msg, Approval: approval } : msg)
setApproval(prev, rowId, approval) ==
    [k \in 1..Len(prev) |->
        IF prev[k].rowId = rowId THEN [prev[k] EXCEPT !.Approval = approval] ELSE prev[k]]

\* the optimistic update before the request is sent
optimisticUpdate(prev, entry, newApproval) == setApproval(prev, entry.rowId, newApproval)

\* a catch block that leaves the optimistic value in place
revertNothing(prev, request) == prev

\* the revert in the catch block: back to the Approval of the entry the
\* handler was called with
revertUpdate(prev, request) == setApproval(prev, request.body.rowId, request.entryApproval)

\* the body of the request to /api/message/update
requestBody(entry, newApproval) ==
    [rowId        |-> entry.rowId,
     approval     |-> newApproval,
     linkedinPost |-> entry.LinkedinPost,
     firstName    |-> entry.FirstName,
     lastName     |-> entry.LastName]

\* the messages table: the row of an entry offers the select unless the entry
\* is the one marked in flight or is already sent
selectShown(entry) ==
    updatingMessageId # entry.rowId /\ entry.Approval # "sent"

\* the options of the select, filtered again by its onChange
selectOptions == {"approval", "reject"}

(***************************************************************************)
(* The sheet and the initial states                                        *)
(***************************************************************************)
\* the decoded export of the tab: the header row, then the data rows
export(rows) == << SheetHeaders >> \o rows

EmptyRow == << << >>, << >>, << >>, << >>, << >> >>

SheetRows ==
    { << <<"p">>, <<"a">>, <<"b">>, <<"u">>, << >> >>,
      << <<"p">>, <<"a">>, <<"b">>, <<"u">>, <<"R","e","j","e","c","t","e","d">> >>,
      << <<"p">>, <<"a">>, <<"b">>, <<"u">>, <<"S","e","n","t">> >>,
      EmptyRow }

\* the Approval and First Name columns of that header row, 1-based
SheetApprovalColumn == builderApprovalColumn[SheetHeaders] + 1
SheetNameColumn == getCellIndex(SheetHeaders, <<"F","i","r","s","t"," ","N","a","m","e">>) + 1

RECURSIVE Sheets(_)
Sheets(n) ==
    IF n = 0 THEN { << >> }
    ELSE Sheets(n - 1)
            \cup { Append(g, r) : g \in { h \in Sheets(n - 1) : Len(h) = n - 1 },
                                  r \in SheetRows }

\* the state after the dashboard was loaded from one of the sheets
Loaded(bounds) ==
    /\ limits = bounds
    /\ sheet \in Sheets(bounds.rows)
    /\ scriptUrl \in { << >>, <<"u">> }
    /\ localSendMessageData = fetchSendMessageData(export(sheet))
    /\ updatingMessageId = null
    /\ requests = {}
    /\ sinkWrites = {}
    /\ calls = 0
    /\ lastCall = NoCall
    /\ posts = 0
    /\ changes = 0
    /\ input = << >>
    /\ output = << >>

Init ==
    Loaded([rows |-> MaxRows, calls |-> MaxCalls, posts |-> 0, changes |-> MaxChanges])

InitTable ==
    Loaded([rows |-> MaxTableRows, calls |-> MaxTableCalls, posts |-> 0, changes |-> 0])

InitSettle ==
    Loaded([rows |-> MaxTableRows, calls |-> MaxCalls, posts |-> 0, changes |-> 0])

InitOverlap ==
    Loaded([rows |-> MaxTableRows, calls |-> MaxOverlapCalls, posts |-> 0, changes |-> 0])

InitHandler ==
    Loaded([rows |-> MaxRows, calls |-> MaxHandlerCalls, posts |-> 0, changes |-> 0])

InitApi ==
    Loaded([rows |-> MaxRows, calls |-> 0, posts |-> MaxPosts, changes |-> MaxChanges])

(***************************************************************************)
(* Client actions                                                          *)
(***************************************************************************)
sameEntry(r, rowId) == r.origin = "client" /\ r.body.rowId = rowId

\* handleMessageApprovalUpdate(entry, newApproval) up to its first await, for
\* the entry at position i of the list
handleMessageApprovalUpdate(i, newApproval) ==
    LET entry == localSendMessageData[i]
    IN  /\ calls < limits.calls
        /\ calls' = calls + 1
        /\ lastCall' = [entryApproval |-> entry.Approval, newApproval |-> newApproval]
        /\ IF handlerRejects(entry, newApproval)
           THEN UNCHANGED << localSendMessageData, updatingMessageId, requests >>
           ELSE /\ updatingMessageId' = entry.rowId
                /\ localSendMessageData' =
                       optimisticUpdate(localSendMessageData, entry, newApproval)
                /\ requests' =
                       { IF sameEntry(r, entry.rowId) THEN [r EXCEPT !.solo = FALSE] ELSE r
                           : r \in requests }
                       \cup { [ id            |-> calls + 1,
                                origin        |-> "client",
                                body          |-> requestBody(entry, newApproval),
                                entryApproval |-> entry.Approval,
                                solo          |-> ~\E r \in requests : sameEntry(r, entry.rowId),
                                pc            |-> "posted",
                                fetched       |-> FALSE,
                                rows          |-> << >>,
                                reply         |-> NoReply,
                                response      |-> NoResponse ] }
        /\ UNCHANGED << sheet, scriptUrl, sinkWrites, posts, changes, limits, input, output >>

\* the user picks an option in the select of a row of the messages table
SelectChange ==
    \E i \in 1..Len(localSendMessageData), newApproval \in selectOptions :
        /\ selectShown(localSendMessageData[i])
        /\ handleMessageApprovalUpdate(i, newApproval)

\* the handler invoked with any entry of the list and any approval value
HandlerCall ==
    \E i \in 1..Len(localSendMessageData), newApproval \in validApprovals :
        handleMessageApprovalUpdate(i, newApproval)

\* the rest of the handler once the fetch has settled: the catch block when
\* it failed, then the finally block
clientSettle(r, failed) ==
    /\ localSendMessageData' =
           IF failed THEN revertUpdate(localSendMessageData, r) ELSE localSendMessageData
    /\ updatingMessageId' = null
    /\ requests' = requests \ {r}
    /\ UNCHANGED << sheet, scriptUrl, sinkWrites, calls, lastCall, posts, changes, limits,
                    input, output >>

\* the response of the endpoint reaches the handler
ClientResponse ==
    \E r \in requests :
        /\ r.origin = "client"
        /\ r.pc = "responded"
        /\ clientSettle(r, r.response.status \notin 200..299)

\* the fetch of the handler rejects: the request never reached the endpoint
ClientFetchError ==
    \E r \in requests :
        /\ r.origin = "client"
        /\ r.pc = "posted"
        /\ clientSettle(r, TRUE)

(***************************************************************************)
(* Endpoint actions                                                        *)
(***************************************************************************)
respond(r, status, error) ==
    [r EXCEPT !.pc = "responded", !.response = postResponse(status, error)]

\* POST up to the end of the sheet fetch
PostFetch ==
    \E r \in requests :
        /\ r.pc = "posted"
        /\ \/ /\ postValidate(r.body) # "none"
              /\ requests' = (requests \ {r}) \cup {respond(r, 400, postValidate(r.body))}
           \/ /\ postValidate(r.body) = "none"
              /\ requests' = (requests \ {r}) \cup
                     {[r EXCEPT !.pc = "fetched", !.fetched = TRUE, !.rows = sheet]}
           \/ /\ postValidate(r.body) = "none"
              /\ requests' = (requests \ {r}) \cup {respond(r, 500, "FetchFailed")}
        /\ UNCHANGED << sheet, scriptUrl, localSendMessageData, updatingMessageId,
                        sinkWrites, calls, lastCall, posts, changes, limits, input, output >>

\* POST from the fetched export to its response, the call of the sink and
\* the sink's write included
PostWrite ==
    \E r \in requests :
        /\ r.pc = "fetched"
        /\ LET prepared == postPrepare(export(r.rows), r.body, scriptUrl)
           IN  IF prepared.error # "none"
               THEN /\ requests' = (requests \ {r}) \cup {respond(r, 500, prepared.error)}
                    /\ UNCHANGED << sheet, sinkWrites >>
               ELSE \E reply \in FlowReplies :
                    /\ sinkWrites' = sinkWrites \cup
                           { [ id        |-> r.id,
                               origin    |-> r.origin,
                               row       |-> prepared.write.row,
                               column    |-> prepared.write.column,
                               value     |-> prepared.write.value,
                               overwrote |-> approvalOfRow(export(sheet), prepared.write.row),
                               applied   |-> sinkApplies(reply) ] }
                    /\ sheet' = IF sinkApplies(reply)
                                THEN Tail(sinkSetValue(export(sheet), prepared.write))
                                ELSE sheet
                    /\ requests' = (requests \ {r}) \cup
                           { [ r EXCEPT !.pc = "responded", !.reply = reply,
                                        !.response = postSinkResponse(reply) ] }
        /\ UNCHANGED << scriptUrl, localSendMessageData, updatingMessageId,
                        calls, lastCall, posts, changes, limits, input, output >>

\* a caller other than the dashboard posts any body to the endpoint
DirectPost ==
    \E rowId \in -1..(limits.rows + 1), approval \in validApprovals \cup {"", "bogus"} :
        /\ posts < limits.posts
        /\ posts' = posts + 1
        /\ requests' = requests \cup
               { [ id            |-> limits.calls + posts + 1,
                   origin        |-> "direct",
                   body          |-> [rowId |-> rowId, approval |-> approval,
                                      linkedinPost |-> << >>, firstName |-> << >>,
                                      lastName |-> << >>],
                   entryApproval |-> "approval",
                   solo          |-> TRUE,
                   pc            |-> "posted",
                   fetched       |-> FALSE,
                   rows          |-> << >>,
                   reply         |-> NoReply,
                   response      |-> NoResponse ] }
        /\ UNCHANGED << sheet, scriptUrl, localSendMessageData, updatingMessageId,
                        sinkWrites, calls, lastCall, changes, limits, input, output >>

\* that caller receives the response
DirectResponse ==
    \E r \in requests :
        /\ r.origin = "direct"
        /\ r.pc = "responded"
        /\ requests' = requests \ {r}
        /\ UNCHANGED << sheet, scriptUrl, localSendMessageData, updatingMessageId,
                        sinkWrites, calls, lastCall, posts, changes, limits, input, output >>

(***************************************************************************)
(* The external system edits the sheet after the dashboard was loaded      *)
(***************************************************************************)
externalEdit(rows) ==
    /\ changes < limits.changes
    /\ changes' = changes + 1
    /\ sheet' = rows
    /\ UNCHANGED << scriptUrl, localSendMessageData, updatingMessageId, requests,
                    sinkWrites, calls, lastCall, posts, limits, input, output >>

\* the outreach system marks a message row as sent
ExternalMarkSent ==
    \E n \in 1..Len(sheet) :
        /\ sheet[n][SheetApprovalColumn] # <<"S","e","n","t">>
        /\ sheet[n][SheetNameColumn] # << >>
        /\ externalEdit([sheet EXCEPT ![n][SheetApprovalColumn] = <<"S","e","n","t">>])

\* the rows the external system adds: a new pending message, a blank row
InsertedRows == { << <<"p">>, <<"a">>, <<"b">>, <<"u">>, << >> >>, EmptyRow }

\* a row is inserted before data row n, or appended
ExternalInsertRow ==
    \E n \in 1..(Len(sheet) + 1), row \in InsertedRows :
        /\ Len(sheet) < limits.rows
        /\ externalEdit(SubSeq(sheet, 1, n - 1) \o << row >> \o SubSeq(sheet, n, Len(sheet)))

\* data row n is deleted
ExternalDeleteRow ==
    \E n \in 1..Len(sheet) :
        externalEdit(SubSeq(sheet, 1, n - 1) \o SubSeq(sheet, n + 1, Len(sheet)))

\* the cells of data row n are cleared
ExternalClearRow ==
    \E n \in 1..Len(sheet) :
        /\ sheet[n] # EmptyRow
        /\ externalEdit([sheet EXCEPT ![n] = EmptyRow])

(***************************************************************************)
(* Specifications                                                          *)
(***************************************************************************)
\* the dashboard as the user drives it, on a sheet the external system edits
Next ==
    \/ SelectChange
    \/ ClientResponse
    \/ ClientFetchError
    \/ PostFetch
    \/ PostWrite
    \/ ExternalMarkSent
    \/ ExternalInsertRow
    \/ ExternalDeleteRow
    \/ ExternalClearRow

Spec == Init /\ [][Next]_vars

\* the messages table with several entries
NextTable ==
    \/ SelectChange
    \/ ClientResponse
    \/ ClientFetchError
    \/ PostFetch
    \/ PostWrite

SpecTable == InitTable /\ [][NextTable]_vars

\* the same table when the user starts a single update
SpecSettle == InitSettle /\ [][NextTable]_vars

\* the same table when the user changes an entry, another entry, and the first
\* entry again
SpecOverlap == InitOverlap /\ [][NextTable]_vars

\* the handler under any arguments
NextHandler ==
    \/ HandlerCall
    \/ ClientResponse
    \/ ClientFetchError
    \/ PostFetch
    \/ PostWrite

SpecHandler == InitHandler /\ [][NextHandler]_vars

\* the endpoint under any request
NextApi ==
    \/ DirectPost
    \/ DirectResponse
    \/ PostFetch
    \/ PostWrite
    \/ ExternalMarkSent
    \/ ExternalInsertRow
    \/ ExternalDeleteRow
    \/ ExternalClearRow

SpecApi == InitApi /\ [][NextApi]_vars

(***************************************************************************)
(* C4: on every decoded export and every ordinal k, the row the endpoint   *)
(* resolves for k is the row from which the builder made the entry with    *)
(* rowId k, and the endpoint reports "row not found" exactly when the      *)
(* builder made fewer than k entries (exports on which the endpoint gives  *)
(* up before its walk, for want of data rows or of an approval column, are *)
(* left aside).                                                            *)
(***************************************************************************)
C4_WalksAgree ==
    (output.loaded /\ output.resolved /\ output.result.error \in {"none", "RowNotFound"}) =>
        LET admitted == sendMessageAdmitted(input.rows)
            k        == input.rowId
        IN  /\ k <= Len(output.entries) =>
                  /\ output.result.error = "none"
                  /\ output.result.targetRowIndex = admitted[k] + 1
            /\ output.result.error = "RowNotFound" <=> k > Len(output.entries)

(***************************************************************************)
(* The interpretation of the sink's answer, applied to every answer        *)
(***************************************************************************)
InitSink ==
    /\ input \in SinkReplies
    /\ output = NoResponse
    /\ FlowIdle

\* POST turns the sink's answer into its response
SinkAnswer ==
    /\ output = NoResponse
    /\ output' = postSinkResponse(input)
    /\ UNCHANGED << input, flowVars >>

NextSink == SinkAnswer

SpecSink == InitSink /\ [][NextSink]_vars

(***************************************************************************)
(* C1: a call of the handler whose target state is Sent, or whose entry's  *)
(* last-known state is Sent, sends no request, sets no in-flight marker    *)
(* and leaves the local message list unchanged.                            *)
(***************************************************************************)
C1_SentRejectedAtOnce ==
    [][ (/\ calls' # calls
         /\ lastCall'.newApproval = "sent" \/ lastCall'.entryApproval = "sent")
        => UNCHANGED << requests, updatingMessageId, localSendMessageData, sinkWrites, sheet >>
      ]_vars

\* the handler was called to reject an entry that is already sent
C1_Witness ==
    calls > 0 /\ lastCall.entryApproval = "sent" /\ lastCall.newApproval = "reject"

(***************************************************************************)
(* C2: the endpoint rejects every request whose target state is Sent       *)
(* before it fetches the export, so that no write with value "Sent" is     *)
(* ever issued to the sink.                                                *)
(***************************************************************************)
C2_SentRejectedBeforeFetch ==
    /\ \A r \in requests :
          r.body.approval = "sent" =>
              /\ r.pc \in {"posted", "responded"}
              /\ ~r.fetched
              /\ r.pc = "responded" => r.response.status = 400
    /\ \A w \in sinkWrites : w.value # <<"S","e","n","t">>

(***************************************************************************)
(* C3: once a row of the sheet is Sent, no update started from the         *)
(* dashboard issues a write that targets that row, whatever the external   *)
(* system did to the sheet after the load.                                 *)
(***************************************************************************)
C3_SentRowNeverWritten ==
    \A w \in sinkWrites : w.origin = "client" => w.overwrote # "sent"

(***************************************************************************)
(* C5: when the admitted-row counter does not reach the requested ordinal  *)
(* on the fresh export, the endpoint answers with a failure, "row not      *)
(* found" whenever the walk ran, and issues no write for that request.     *)
(***************************************************************************)
postAdmittedCount(rows) ==
    Cardinality({n \in 2..Len(rows) : postCounts(rows[n], postColumnsOf[rows[1]])})

C5_RowNotFoundNoWrite ==
    \A r \in requests :
        (/\ r.pc = "responded"
         /\ r.fetched
         /\ r.body.rowId >= 1
         /\ postAdmittedCount(export(r.rows)) < r.body.rowId)
        => /\ r.response.status = 500
           /\ ~\E w \in sinkWrites : w.id = r.id
           /\ Len(r.rows) >= 1 => r.response.error = "RowNotFound"

\* an entry of the loaded list whose row is gone from the fresh export
C5_Witness ==
    \E r \in requests :
        /\ r.origin = "client"
        /\ r.pc = "responded"
        /\ r.response.error = "RowNotFound"
        /\ r.body.rowId <= Len(localSendMessageData)

(***************************************************************************)
(* C6: when the only update of an entry settles, the entry's local state   *)
(* is the one it had before the optimistic change if the endpoint reported *)
(* a failure (or the fetch threw) and the target state if it reported      *)
(* success; every other entry is unchanged and the in-flight marker is     *)
(* cleared.                                                                *)
(***************************************************************************)
C6_SingleUpdateSettles ==
    [][ \A r \in requests :
          (/\ r.origin = "client"
           /\ r.solo
           /\ ~\E q \in requests' : q.id = r.id)
          => LET failed == r.pc = "posted" \/ r.response.status \notin 200..299
             IN  /\ Len(localSendMessageData') = Len(localSendMessageData)
                 /\ \A k \in 1..Len(localSendMessageData) :
                       IF localSendMessageData[k].rowId = r.body.rowId
                       THEN localSendMessageData'[k] =
                              [localSendMessageData[k] EXCEPT !.Approval =
                                  IF failed THEN r.entryApproval ELSE r.body.approval]
                       ELSE localSendMessageData'[k] = localSendMessageData[k]
                 /\ updatingMessageId' = null
      ]_vars

\* one update was started and has settled as a failure: nothing was written
C6_Witness ==
    calls = 1 /\ requests = {} /\ sinkWrites = {} /\ updatingMessageId = null

(***************************************************************************)
(* C7: while an update of an entry is in flight, the messages table does   *)
(* not offer the select of that entry, so that no second update of the     *)
(* entry can be started.                                                   *)
(***************************************************************************)
C7_SerializedPerEntry ==
    \A r \in requests :
        r.origin = "client" =>
            \A k \in 1..Len(localSendMessageData) :
                localSendMessageData[k].rowId = r.body.rowId
                    => ~selectShown(localSendMessageData[k])

C9_SuccessOnlyIfClean ==
    (output # NoResponse /\ output.status = 200) =>
        /\ input.ok
        /\ \/ input.parses /\ input.success # "false" /\ ~input.error
           \/ ~input.parses /\ ~input.html /\ ~input.errorToken

(***************************************************************************)
(* C9, amended: the endpoint returns success exactly when the sink         *)
(* answered 2xx and the body either parses to a value other than null      *)
(* whose success flag is not false and which, when it has no success flag, *)
(* has no error field, or does not parse and holds no error-like token.    *)
(***************************************************************************)
C9_SuccessIffAccepted ==
    output # NoResponse =>
        (output.status = 200 <=>
            /\ input.ok
            /\ \/ /\ input.parses
                  /\ ~input.isNull
                  /\ input.success # "false"
                  /\ input.success = "absent" => ~input.error
               \/ ~input.parses /\ ~input.html /\ ~input.errorToken)

\* a 2xx plain-text answer without error tokens was taken for a success
C9_Witness ==
    /\ output # NoResponse
    /\ output.status = 200
    /\ input.ok /\ ~input.parses /\ ~input.html /\ ~input.errorToken

(***************************************************************************)
(* C10: the local state of an entry changes only between Pending           *)
(* ('approval') and Rejected ('reject'); it never becomes Sent, and an     *)
(* entry loaded as Sent never changes.                                     *)
(***************************************************************************)
C10_PendingRejectedOnly ==
    [][ /\ Len(localSendMessageData') = Len(localSendMessageData)
        /\ \A k \in 1..Len(localSendMessageData) :
              localSendMessageData'[k].Approval # localSendMessageData[k].Approval
                  => /\ localSendMessageData[k].Approval \in {"approval", "reject"}
                     /\ localSendMessageData'[k].Approval \in {"approval", "reject"}
      ]_vars

\* an entry was rejected and then approved again, both updates done by the
\* sink, and is Pending
C10_Witness ==
    /\ requests = {}
    /\ \E v \in sinkWrites, w \in sinkWrites :
          /\ v.id < w.id
          /\ v.row = w.row
          /\ v.applied /\ v.value = <<"R","e","j","e","c","t","e","d">>
          /\ w.applied /\ w.value = <<"A","p","p","r","o","v","e","d">>
          /\ \E k \in 1..Len(localSendMessageData) :
                /\ postResolve(export(sheet), localSendMessageData[k].rowId).targetRowIndex = w.row
                /\ localSendMessageData[k].Approval = "approval"

(***************************************************************************)
(* The tabs handed to the record builders                                  *)
(***************************************************************************)
\* data rows of a tab handed to a record builder
MaxTabRows == 2

\* header rows of the tabs listed in the index: a profile-data tab, one with
\* two of its columns, a DM tab and a tab of neither kind
ScrapedHeaders ==
    { << <<"F","i","r","s","t"," ","N","a","m","e">>, <<"L","a","s","t"," ","N","a","m","e">>, <<"P","r","o","f","i","l","e"," ","U","R","L">>, <<"L","i","n","k","e","d","i","n"," ","P","o","s","t">>,
         <<"L","i","n","k","e","d","I","n"," ","P","o","s","t"," ","U","s","e","r">> >>,
      << <<"L","a","s","t"," ","N","a","m","e">>, <<"P","r","o","f","i","l","e"," ","U","R","L">> >>,
      << <<"F","i","r","s","t"," ","N","a","m","e">>, <<"P","r","o","f","i","l","e"," ","U","R","L">>, <<"D","M">>, <<"A","p","p","r","o","v","a","l">> >>,
      << <<"C","o","m","p","a","n","y">>, <<"R","o","l","e">> >> }

\* header rows of the Combined Leads tab
LeadHeaders ==
    { << <<"F","i","r","s","t"," ","N","a","m","e">>, <<"L","a","s","t"," ","N","a","m","e">>, <<"P","r","o","f","i","l","e"," ","U","R","L">>, <<"L","i","n","k","e","d","i","n"," ","P","o","s","t">> >>,
      << <<"C","o","m","p","a","n","y">>, <<"R","o","l","e">> >> }

\* header rows of the tabs tried as DM tabs
DMHeaders ==
    { << <<"F","i","r","s","t"," ","N","a","m","e">>, <<"L","a","s","t"," ","N","a","m","e">>, <<"D","M">>, <<"A","p","p","r","o","v","a","l">> >>,
      << <<"F","i","r","s","t"," ","N","a","m","e">>, <<"L","a","s","t"," ","N","a","m","e">>, <<"P","r","o","f","i","l","e"," ","U","R","L">> >> }

TabHeaders == ScrapedHeaders \cup LeadHeaders \cup DMHeaders

\* the column names the builders ask getCell for
ColumnNames ==
    { <<"F","i","r","s","t"," ","N","a","m","e">>, <<"L","a","s","t"," ","N","a","m","e">>, <<"P","r","o","f","i","l","e"," ","U","R","L">>, <<"L","i","n","k","e","d","i","n"," ","P","o","s","t">>,
      <<"L","i","n","k","e","d","I","n"," ","P","o","s","t">>, <<"L","i","n","k","e","d","I","n"," ","P","o","s","t"," ","U","s","e","r">>, <<"D","M">> }

\* getCell resolves a name against the header row alone: the column of every
\* name on every header row
columnIndex ==
    [headers \in TabHeaders |-> [name \in ColumnNames |-> getCellIndex(headers, name)]]

\* getCell(row, headers, columnName) on these header rows
cell(row, headers, columnName) == cellAt(row, columnIndex[headers][columnName])

\* Array.prototype.some
some(arr, P(_)) == \E i \in 1..Len(arr) : P(arr[i])

\* headers.map(h => h ? h.toLowerCase().trim() : '')
normalizeHeaders(headers) == [i \in 1..Len(headers) |-> trim(toLowerCase(headers[i]))]

(***************************************************************************)
(* lib/google-sheets: fetchScrapedDataSheet, on the decoded export         *)
(***************************************************************************)
\* a classifier that looks for the core columns first
scrapedSheetKindCoreFirst(headers) ==
    LET normalizedHeaders == normalizeHeaders(headers)
        hasName == some(normalizedHeaders, LAMBDA h :
            \/ includes(h, <<"f","i","r","s","t"," ","n","a","m","e">>) \/ h = <<"f","i","r","s","t","n","a","m","e">> \/ h = <<"f","i","r","s","t","_","n","a","m","e">>
            \/ includes(h, <<"l","a","s","t"," ","n","a","m","e">>) \/ h = <<"l","a","s","t","n","a","m","e">> \/ h = <<"l","a","s","t","_","n","a","m","e">>
            \/ includes(h, <<"s","u","r","n","a","m","e">>))
        hasLink == some(normalizedHeaders, LAMBDA h :
            \/ includes(h, <<"p","r","o","f","i","l","e"," ","u","r","l">>) \/ includes(h, <<"p","r","o","f","i","l","e","u","r","l">>)
            \/ includes(h, <<"p","r","o","f","i","l","e"," ","l","i","n","k">>) \/ includes(h, <<"l","i","n","k","e","d","i","n"," ","u","r","l">>)
            \/ includes(h, <<"l","i","n","k","e","d","i","n"," ","p","o","s","t">>) \/ includes(h, <<"l","i","n","k","e","d","i","n","_","p","o","s","t">>)
            \/ includes(h, <<"p","o","s","t"," ","u","r","l">>) \/ includes(h, <<"p","o","s","t"," ","u","s","e","r">>))
        hasDM == some(normalizedHeaders, LAMBDA h :
            includes(h, <<"d","m">>) /\ ~includes(h, <<"p","r","o","f","i","l","e">>))
        hasApproval == some(normalizedHeaders, LAMBDA h : includes(h, <<"a","p","p","r","o","v","a","l">>))
    IN  IF hasName /\ hasLink THEN "scraped"
        ELSE IF hasDM /\ hasApproval THEN "dm"
        ELSE "none"

\* the presence flags fetchScrapedDataSheet computes from the header row
scrapedFlags(headers) ==
    LET normalizedHeaders == normalizeHeaders(headers)
    IN  [ hasFirstName |-> some(normalizedHeaders, LAMBDA h :
              includes(h, <<"f","i","r","s","t"," ","n","a","m","e">>) \/ h = <<"f","i","r","s","t","n","a","m","e">> \/ h = <<"f","i","r","s","t","_","n","a","m","e">>),
          hasLastName |-> some(normalizedHeaders, LAMBDA h :
              \/ includes(h, <<"l","a","s","t"," ","n","a","m","e">>) \/ h = <<"l","a","s","t","n","a","m","e">> \/ h = <<"l","a","s","t","_","n","a","m","e">>
              \/ includes(h, <<"s","u","r","n","a","m","e">>)),
          hasProfileUrl |-> some(normalizedHeaders, LAMBDA h :
              \/ includes(h, <<"p","r","o","f","i","l","e"," ","u","r","l">>) \/ includes(h, <<"p","r","o","f","i","l","e","u","r","l">>)
              \/ includes(h, <<"p","r","o","f","i","l","e"," ","l","i","n","k">>) \/ includes(h, <<"l","i","n","k","e","d","i","n"," ","u","r","l">>)),
          hasLinkedInPost |-> some(normalizedHeaders, LAMBDA h :
              \/ includes(h, <<"l","i","n","k","e","d","i","n"," ","p","o","s","t">>) \/ includes(h, <<"l","i","n","k","e","d","i","n","_","p","o","s","t">>)
              \/ includes(h, <<"p","o","s","t"," ","u","r","l">>)),
          hasLinkedInPostUser |-> some(normalizedHeaders, LAMBDA h :
              includes(h, <<"l","i","n","k","e","d","i","n"," ","p","o","s","t"," ","u","s","e","r">>) \/ includes(h, <<"p","o","s","t"," ","u","s","e","r">>)),
          hasDM |-> some(normalizedHeaders, LAMBDA h :
              includes(h, <<"d","m">>) /\ ~includes(h, <<"p","r","o","f","i","l","e">>)),
          hasApproval |-> some(normalizedHeaders, LAMBDA h : includes(h, <<"a","p","p","r","o","v","a","l">>)) ]

\* the header checks of fetchScrapedDataSheet: "dm" for a DM sheet, "none"
\* for a sheet without the core columns, "scraped" otherwise
scrapedSheetKind(headers) ==
    LET flags == scrapedFlags(headers)
        hasCoreColumns ==
            /\ flags.hasFirstName \/ flags.hasLastName
            /\ flags.hasProfileUrl \/ flags.hasLinkedInPost \/ flags.hasLinkedInPostUser
    IN  IF flags.hasDM /\ flags.hasApproval THEN "dm"
        ELSE IF ~hasCoreColumns THEN "none"
        ELSE "scraped"

scrapedKindOf == [headers \in ScrapedHeaders |-> scrapedSheetKind(headers)]

\* the core fields the loop reads from one row
scrapedFields(row, headers, postUrl) ==
    [ FirstName        |-> orElse(cell(row, headers, <<"F","i","r","s","t"," ","N","a","m","e">>), << >>),
      LastName         |-> orElse(cell(row, headers, <<"L","a","s","t"," ","N","a","m","e">>), << >>),
      ProfileURL       |-> orElse(cell(row, headers, <<"P","r","o","f","i","l","e"," ","U","R","L">>), << >>),
      LinkedinPost     |-> orElse(orElse(orElse(cell(row, headers, <<"L","i","n","k","e","d","i","n"," ","P","o","s","t">>),
                                                cell(row, headers, <<"L","i","n","k","e","d","I","n"," ","P","o","s","t">>)),
                                         postUrl), << >>),
      LinkedInPostUser |-> orElse(cell(row, headers, <<"L","i","n","k","e","d","I","n"," ","P","o","s","t"," ","U","s","e","r">>), NULL) ]

\* the two continue statements after the core fields
scrapedSkips(fields) ==
    \/ ~truthy(fields.FirstName) /\ ~truthy(fields.LastName)
    \/ /\ ~truthy(fields.ProfileURL)
       /\ ~truthy(fields.LinkedinPost)
       /\ ~truthy(fields.LinkedInPostUser)

\* a builder whose counter advances on every row it looks at
RECURSIVE scrapedLoopCountsAll(_, _, _, _, _)
scrapedLoopCountsAll(rows, postUrl, i, rowCounter, entries) ==
    IF i >= Len(rows) THEN entries
    ELSE LET fields == scrapedFields(rows[i + 1], rows[1], postUrl)
         IN  IF isEmptyRow(rows[i + 1]) \/ scrapedSkips(fields)
             THEN scrapedLoopCountsAll(rows, postUrl, i + 1, rowCounter + 1, entries)
             ELSE scrapedLoopCountsAll(rows, postUrl, i + 1, rowCounter + 1,
                      Append(entries, [rowId |-> rowCounter] @@ fields))

\* the loop of fetchScrapedDataSheet from row i on (the optional fields of
\* the entry, which play no part in the admission, are left out)
RECURSIVE scrapedLoop(_, _, _, _, _)
scrapedLoop(rows, postUrl, i, rowCounter, entries) ==
    IF i >= Len(rows) THEN entries
    ELSE LET fields == scrapedFields(rows[i + 1], rows[1], postUrl)
         IN  IF isEmptyRow(rows[i + 1]) \/ scrapedSkips(fields)
             THEN scrapedLoop(rows, postUrl, i + 1, rowCounter, entries)
             ELSE scrapedLoop(rows, postUrl, i + 1, rowCounter + 1,
                      Append(entries, [rowId |-> rowCounter] @@ fields))

\* fetchScrapedDataSheet after parseCSV
fetchScrapedDataSheet(rows, postUrl) ==
    IF Len(rows) = 0 \/ Len(rows) = 1 THEN << >>
    ELSE IF scrapedKindOf[rows[1]] # "scraped" THEN << >>
    ELSE scrapedLoop(rows, postUrl, 1, 1, << >>)

(***************************************************************************)
(* The profile builder, applied to bounded tabs                            *)
(***************************************************************************)
NoEntries == [done |-> FALSE, entries |-> << >>]

InitScraped ==
    /\ \E headers \in ScrapedHeaders :
         input \in [rows : WalkGrids(headers, MaxTabRows), postUrl : { << >>, <<"u">> }]
    /\ output = NoEntries
    /\ FlowIdle

\* fetchAllScrapedData hands the tab and the post URL of its index row to
\* the builder
ScrapedBuild ==
    /\ ~output.done
    /\ output' = [done |-> TRUE,
                  entries |-> fetchScrapedDataSheet(input.rows, input.postUrl)]
    /\ UNCHANGED << input, flowVars >>

NextScraped == ScrapedBuild

SpecScraped == InitScraped /\ [][NextScraped]_vars

\* the 0-based indices of the data rows of a tab that satisfy P, in order
rowsWhere(rows, P(_)) == SelectSeq([n \in 1..(Len(rows) - 1) |-> n], P)

\* the entries without their ordinals
withoutRowId(entries) ==
    [k \in 1..Len(entries) |->
        [f \in (DOMAIN entries[k]) \ {"rowId"} |-> entries[k][f]]]

(***************************************************************************)
(* C11: on every profile-data tab the entries carry the ordinals 1, 2, ..., *)
(* n in row order, n being the number of rows that are neither blank nor   *)
(* discarded: the k-th entry is made from the k-th such row and has        *)
(* ordinal k.                                                              *)
(***************************************************************************)
C11_ScrapedOrdinalsDense ==
    (output.done /\ scrapedKindOf[input.rows[1]] = "scraped") =>
        LET kept == rowsWhere(input.rows, LAMBDA i :
                        /\ ~isEmptyRow(input.rows[i + 1])
                        /\ ~scrapedSkips(scrapedFields(input.rows[i + 1], input.rows[1],
                                                       input.postUrl)))
        IN  /\ Len(output.entries) = Len(kept)
            /\ \A k \in 1..Len(kept) :
                  /\ output.entries[k].rowId = k
                  /\ output.entries[k] =
                        [rowId |-> k] @@ scrapedFields(input.rows[kept[k] + 1],
                                                       input.rows[1], input.postUrl)

\* a discarded row, then an admitted one, which got ordinal 1
C11_Witness ==
    /\ output.done
    /\ Len(input.rows) = 3
    /\ ~isEmptyRow(input.rows[2])
    /\ scrapedSkips(scrapedFields(input.rows[2], input.rows[1], input.postUrl))
    /\ ~isEmptyRow(input.rows[3])
    /\ Len(output.entries) = 1
    /\ output.entries[1].rowId = 1
    /\ output.entries[1].LastName = <<"x">>

(***************************************************************************)
(* C13: on every profile-data tab and under every tab context, the rows    *)
(* that become entries are exactly the rows with a first or last name and  *)
(* with a profile URL, post URL or post author of their own.               *)
(***************************************************************************)
rowHasNameAndLink(row, headers) ==
    /\ \/ truthy(cell(row, headers, <<"F","i","r","s","t"," ","N","a","m","e">>))
       \/ truthy(cell(row, headers, <<"L","a","s","t"," ","N","a","m","e">>))
    /\ \/ truthy(cell(row, headers, <<"P","r","o","f","i","l","e"," ","U","R","L">>))
       \/ truthy(cell(row, headers, <<"L","i","n","k","e","d","i","n"," ","P","o","s","t">>))
       \/ truthy(cell(row, headers, <<"L","i","n","k","e","d","I","n"," ","P","o","s","t">>))
       \/ truthy(cell(row, headers, <<"L","i","n","k","e","d","I","n"," ","P","o","s","t"," ","U","s","e","r">>))

C13_AdmittedIffNameAndLink ==
    (output.done /\ scrapedKindOf[input.rows[1]] = "scraped") =>
        LET claimed == rowsWhere(input.rows, LAMBDA i :
                           rowHasNameAndLink(input.rows[i + 1], input.rows[1]))
        IN  withoutRowId(output.entries) =
                [k \in 1..Len(claimed) |->
                    scrapedFields(input.rows[claimed[k] + 1], input.rows[1], input.postUrl)]

(***************************************************************************)
(* lib/google-sheets: fetchAllDMData, the walk of the Combined Leads tab   *)
(***************************************************************************)
\* the header check before the walk
leadsHasColumns(headers) ==
    LET normalizedHeaders == normalizeHeaders(headers)
        hasFirstName == some(normalizedHeaders, LAMBDA h :
            includes(h, <<"f","i","r","s","t"," ","n","a","m","e">>) \/ h = <<"f","i","r","s","t","n","a","m","e">> \/ h = <<"f","i","r","s","t","_","n","a","m","e">>)
        hasLastName == some(normalizedHeaders, LAMBDA h :
            includes(h, <<"l","a","s","t"," ","n","a","m","e">>) \/ h = <<"l","a","s","t","n","a","m","e">> \/ h = <<"l","a","s","t","_","n","a","m","e">>)
        hasLinkedInPost == some(normalizedHeaders, LAMBDA h :
            \/ includes(h, <<"l","i","n","k","e","d","i","n"," ","p","o","s","t">>) \/ includes(h, <<"l","i","n","k","e","d","i","n","_","p","o","s","t">>)
            \/ includes(h, <<"p","o","s","t"," ","u","r","l">>))
        hasProfileUrl == some(normalizedHeaders, LAMBDA h :
            \/ includes(h, <<"p","r","o","f","i","l","e"," ","u","r","l">>) \/ includes(h, <<"p","r","o","f","i","l","e","u","r","l">>)
            \/ includes(h, <<"p","r","o","f","i","l","e"," ","l","i","n","k">>))
    IN  hasFirstName \/ hasLastName \/ hasLinkedInPost \/ hasProfileUrl

leadsHasColumnsOf == [headers \in LeadHeaders |-> leadsHasColumns(headers)]

\* the four fields the walk reads from one row
leadFields(row, headers) ==
    [ LinkedinPost |-> orElse(orElse(cell(row, headers, <<"L","i","n","k","e","d","i","n"," ","P","o","s","t">>),
                                     cell(row, headers, <<"L","i","n","k","e","d","I","n"," ","P","o","s","t">>)), << >>),
      FirstName    |-> orElse(cell(row, headers, <<"F","i","r","s","t"," ","N","a","m","e">>), << >>),
      LastName     |-> orElse(cell(row, headers, <<"L","a","s","t"," ","N","a","m","e">>), << >>),
      ProfileURL   |-> orElse(cell(row, headers, <<"P","r","o","f","i","l","e"," ","U","R","L">>), << >>) ]

\* if (!firstName && !lastName && !linkedinPost && !profileUrl) continue
leadSkips(fields) ==
    /\ ~truthy(fields.FirstName)
    /\ ~truthy(fields.LastName)
    /\ ~truthy(fields.LinkedinPost)
    /\ ~truthy(fields.ProfileURL)

\* if (entry['First Name'] || entry['Last Name'] || entry['Profile URL'])
leadPushes(fields) ==
    truthy(fields.FirstName) \/ truthy(fields.LastName) \/ truthy(fields.ProfileURL)

\* the walk from row i on: the entry, and with it rowId: rowCounter++, is
\* made before the test that pushes it
RECURSIVE leadsLoop(_, _, _, _)
leadsLoop(rows, i, rowCounter, entries) ==
    IF i >= Len(rows) THEN entries
    ELSE LET fields == leadFields(rows[i + 1], rows[1])
         IN  IF isEmptyRow(rows[i + 1]) \/ leadSkips(fields)
             THEN leadsLoop(rows, i + 1, rowCounter, entries)
             ELSE leadsLoop(rows, i + 1, rowCounter + 1,
                      IF leadPushes(fields)
                      THEN Append(entries, [rowId |-> rowCounter] @@ fields)
                      ELSE entries)

\* the entries of the Combined Leads tab, after parseCSV
combinedLeads(rows) ==
    IF Len(rows) > 1 /\ leadsHasColumnsOf[rows[1]]
    THEN leadsLoop(rows, 1, 1, << >>)
    ELSE << >>

(***************************************************************************)
(* lib/google-sheets: fetchDMDataSheet, on the decoded export              *)
(***************************************************************************)
\* the header check of fetchDMDataSheet
hasDMColumns(headers) ==
    /\ some(headers, LAMBDA h : h # << >> /\ includes(toLowerCase(h), <<"d","m">>))
    /\ some(headers, LAMBDA h : h # << >> /\ includes(toLowerCase(h), <<"a","p","p","r","o","v","a","l">>))

hasDMColumnsOf == [headers \in DMHeaders |-> hasDMColumns(headers)]

\* the fields of the DM entry that identify the lead and hold the message
dmFields(row, headers, postUrl) ==
    [ LinkedinPost |-> orElse(orElse(cell(row, headers, <<"L","i","n","k","e","d","i","n"," ","P","o","s","t">>), postUrl), << >>),
      FirstName    |-> orElse(cell(row, headers, <<"F","i","r","s","t"," ","N","a","m","e">>), << >>),
      LastName     |-> orElse(cell(row, headers, <<"L","a","s","t"," ","N","a","m","e">>), << >>),
      DM           |-> orElse(cell(row, headers, <<"D","M">>), << >>) ]

\* if (entry['First Name'] || entry.DM)
dmPushes(fields) == truthy(fields.FirstName) \/ truthy(fields.DM)

\* the loop from row i on: rowId: rowCounter++ is evaluated for every row
\* that is not blank
RECURSIVE dmLoop(_, _, _, _, _)
dmLoop(rows, postUrl, i, rowCounter, entries) ==
    IF i >= Len(rows) THEN entries
    ELSE LET fields == dmFields(rows[i + 1], rows[1], postUrl)
         IN  IF isEmptyRow(rows[i + 1])
             THEN dmLoop(rows, postUrl, i + 1, rowCounter, entries)
             ELSE dmLoop(rows, postUrl, i + 1, rowCounter + 1,
                      IF dmPushes(fields)
                      THEN Append(entries, [rowId |-> rowCounter] @@ fields)
                      ELSE entries)

\* fetchDMDataSheet after parseCSV
fetchDMDataSheet(rows, postUrl) ==
    IF Len(rows) = 0 \/ Len(rows) = 1 THEN << >>
    ELSE IF ~hasDMColumnsOf[rows[1]] THEN << >>
    ELSE dmLoop(rows, postUrl, 1, 1, << >>)

(***************************************************************************)
(* The lead and DM builders, applied to bounded tabs                       *)
(***************************************************************************)
InitLeads ==
    /\ \/ \E headers \in LeadHeaders :
            input \in [kind : {"leads"}, rows : WalkGrids(headers, MaxTabRows),
                       postUrl : { << >> }]
       \/ \E headers \in DMHeaders :
            input \in [kind : {"dm"}, rows : WalkGrids(headers, MaxTabRows),
                       postUrl : { << >>, <<"u">> }]
    /\ output = NoEntries
    /\ FlowIdle

\* fetchAllDMData walks the Combined Leads tab
LeadsBuild ==
    /\ ~output.done
    /\ input.kind = "leads"
    /\ output' = [done |-> TRUE, entries |-> combinedLeads(input.rows)]
    /\ UNCHANGED << input, flowVars >>

\* fetchDMDataSheet builds the entries of a DM tab
DMBuild ==
    /\ ~output.done
    /\ input.kind = "dm"
    /\ output' = [done |-> TRUE, entries |-> fetchDMDataSheet(input.rows, input.postUrl)]
    /\ UNCHANGED << input, flowVars >>

NextLeads == LeadsBuild \/ DMBuild

SpecLeads == InitLeads /\ [][NextLeads]_vars

(***************************************************************************)
(* C12: on the Combined Leads tab and on every DM tab the retained entries *)
(* carry the ordinals 1, 2, ..., n: the k-th retained entry has ordinal k. *)
(***************************************************************************)
C12_RetainedOrdinalsDense ==
    output.done => \A k \in 1..Len(output.entries) : output.entries[k].rowId = k

(***************************************************************************)
(* C14: a row of the Combined Leads tab is retained exactly when it has a  *)
(* first or last name and a profile URL or post URL.                       *)
(***************************************************************************)
rowHasNameAndUrl(row, headers) ==
    /\ \/ truthy(cell(row, headers, <<"F","i","r","s","t"," ","N","a","m","e">>))
       \/ truthy(cell(row, headers, <<"L","a","s","t"," ","N","a","m","e">>))
    /\ \/ truthy(cell(row, headers, <<"P","r","o","f","i","l","e"," ","U","R","L">>))
       \/ truthy(cell(row, headers, <<"L","i","n","k","e","d","i","n"," ","P","o","s","t">>))
       \/ truthy(cell(row, headers, <<"L","i","n","k","e","d","I","n"," ","P","o","s","t">>))

C14_LeadRetainedIffNameAndUrl ==
    (output.done /\ input.kind = "leads" /\ leadsHasColumnsOf[input.rows[1]]) =>
        LET claimed == rowsWhere(input.rows, LAMBDA i :
                           rowHasNameAndUrl(input.rows[i + 1], input.rows[1]))
        IN  withoutRowId(output.entries) =
                [k \in 1..Len(claimed) |-> leadFields(input.rows[claimed[k] + 1], input.rows[1])]

(***************************************************************************)
(* components/DashboardClient: allLeads and normalizeUrl                   *)
(***************************************************************************)
\* s.replace(/^p/, '') for a literal p
stripPrefix(s, p) ==
    IF Len(s) >= Len(p) /\ SubSeq(s, 1, Len(p)) = p
    THEN SubSeq(s, Len(p) + 1, Len(s))
    ELSE s

\* s.replace(/\/$/, '')
stripTrailingSlash(s) ==
    IF Len(s) >= 1 /\ s[Len(s)] = "/" THEN SubSeq(s, 1, Len(s) - 1) ELSE s

\* normalizeUrl(url)
normalizeUrl(url) ==
    IF url = << >> THEN << >>
    ELSE LET lowered    == toLowerCase(trim(url))
             noProtocol == IF stripPrefix(lowered, <<"h","t","t","p","s",":","/","/">>) # lowered
                           THEN stripPrefix(lowered, <<"h","t","t","p","s",":","/","/">>)
                           ELSE stripPrefix(lowered, <<"h","t","t","p",":","/","/">>)
         IN  stripTrailingSlash(stripPrefix(noProtocol, <<"w","w","w",".">>))

\* scrapedData.map(...) and dmData.map(...): the lead made from an entry
toLead(entry, source) ==
    [ rowId      |-> << source, entry.rowId >>,
      LinkedinPost |-> entry.LinkedinPost,
      FirstName  |-> entry.FirstName,
      LastName   |-> entry.LastName,
      ProfileURL |-> entry.ProfileURL,
      source     |-> source ]

\* `${lead['Linkedin Post']}_${lead['First Name']}_${lead['Last Name']}`
leadKey(lead) == lead.LinkedinPost \o <<"_">> \o lead.FirstName \o <<"_">> \o lead.LastName

\* the forEach over the leads from position i on
RECURSIVE mergeFrom(_, _, _, _)
mergeFrom(leads, i, seen, merged) ==
    IF i > Len(leads) THEN merged
    ELSE IF leadKey(leads[i]) \notin seen
         THEN mergeFrom(leads, i + 1, seen \cup { leadKey(leads[i]) }, Append(merged, leads[i]))
         ELSE mergeFrom(leads, i + 1, seen, merged)

\* a merge that scans the combined leads before the scraped ones
allLeadsCombinedFirst(scrapedData, dmData) ==
    mergeFrom([k \in 1..Len(dmData) |-> toLead(dmData[k], "combined")]
                  \o [k \in 1..Len(scrapedData) |-> toLead(scrapedData[k], "scraped")],
              1, {}, << >>)

\* allLeads
allLeads(scrapedData, dmData) ==
    mergeFrom([k \in 1..Len(scrapedData) |-> toLead(scrapedData[k], "scraped")]
                  \o [k \in 1..Len(dmData) |-> toLead(dmData[k], "combined")],
              1, {}, << >>)

(***************************************************************************)
(* The merge, applied to bounded lists of entries                          *)
(***************************************************************************)
\* entries in each of the two lists handed to the merge
MaxMerged == 2

\* the identifying fields of the entries: the same post written in two
\* ways and another post, the same name in two cases
LeadPosts == { <<"h","t","t","p","s",":","/","/","w","w","w",".","x",".","c","o","m","/","p","/","1","/">>, <<"x",".","c","o","m","/","p","/","1">>, <<"y",".","c","o","m">> }
LeadFirstNames == { <<"J","o">>, <<"j","o">> }
LeadLastNames == { <<"D","o","e">> }

LeadIdentities ==
    [LinkedinPost : LeadPosts, FirstName : LeadFirstNames, LastName : LeadLastNames]

\* the lists of n or fewer entries, with the ordinals 1, 2, ... of a builder
RECURSIVE EntryLists(_)
EntryLists(n) ==
    IF n = 0 THEN { << >> }
    ELSE EntryLists(n - 1)
            \cup { Append(l, [rowId |-> n, ProfileURL |-> <<"u">>] @@ e) :
                       l \in { h \in EntryLists(n - 1) : Len(h) = n - 1 },
                       e \in LeadIdentities }

NoMerged == [done |-> FALSE, merged |-> << >>]

InitMerge ==
    /\ input \in [scrapedData : EntryLists(MaxMerged), dmData : EntryLists(MaxMerged)]
    /\ output = NoMerged
    /\ FlowIdle

\* the dashboard computes allLeads from its two props
MergeLeads ==
    /\ ~output.done
    /\ output' = [done |-> TRUE, merged |-> allLeads(input.scrapedData, input.dmData)]
    /\ UNCHANGED << input, flowVars >>

NextMerge == MergeLeads

SpecMerge == InitMerge /\ [][NextMerge]_vars

(***************************************************************************)
(* C15: a Profile Entry and a Lead Entry are merged into one unified lead  *)
(* exactly when their (postUrl, firstName, lastName) triples are equal     *)
(* after normalization (lower-case, trim; protocol, leading 'www.' and one *)
(* trailing slash stripped from the URL).                                  *)
(***************************************************************************)
normalizedTriple(entry) ==
    << normalizeUrl(entry.LinkedinPost),
       trim(toLowerCase(entry.FirstName)),
       trim(toLowerCase(entry.LastName)) >>

C15_SameLeadIffNormalizedEqual ==
    (output.done /\ Len(input.scrapedData) = 1 /\ Len(input.dmData) = 1) =>
        (Len(output.merged) = 1
            <=> normalizedTriple(input.scrapedData[1]) = normalizedTriple(input.dmData[1]))

(***************************************************************************)
(* C16: the merged list holds, in scan order (Profile Entries, then Lead   *)
(* Entries), exactly the first occurrence of every key of the merge; a key *)
(* that occurs in both inputs is kept from the Profile Entries.            *)
(***************************************************************************)
C16_FirstSeenWins ==
    output.done =>
        LET scanned == [k \in 1..Len(input.scrapedData) |->
                            toLead(input.scrapedData[k], "scraped")]
                       \o [k \in 1..Len(input.dmData) |->
                            toLead(input.dmData[k], "combined")]
            first   == SelectSeq([i \in 1..Len(scanned) |-> i], LAMBDA i :
                           \A j \in 1..(i - 1) : leadKey(scanned[j]) # leadKey(scanned[i]))
        IN  /\ output.merged = [k \in 1..Len(first) |-> scanned[first[k]]]
            /\ \A k \in 1..Len(output.merged), m \in 1..Len(output.merged) :
                  leadKey(output.merged[k]) = leadKey(output.merged[m]) => k = m
            /\ \A s \in 1..Len(input.scrapedData), c \in 1..Len(input.dmData) :
                  leadKey(toLead(input.scrapedData[s], "scraped"))
                      = leadKey(toLead(input.dmData[c], "combined"))
                  => \A k \in 1..Len(output.merged) :
                        leadKey(output.merged[k]) = leadKey(toLead(input.dmData[c], "combined"))
                            => output.merged[k].source = "scraped"

\* a key that occurs twice among the Profile Entries and once among the
\* Lead Entries is kept once, from the first Profile Entry
C16_Witness ==
    /\ output.done
    /\ Len(input.scrapedData) = 2
    /\ Len(input.dmData) = 2
    /\ leadKey(toLead(input.scrapedData[1], "scraped"))
           = leadKey(toLead(input.scrapedData[2], "scraped"))
    /\ leadKey(toLead(input.scrapedData[1], "scraped"))
           = leadKey(toLead(input.dmData[2], "combined"))
    /\ leadKey(toLead(input.dmData[1], "combined"))
           # leadKey(toLead(input.dmData[2], "combined"))
    /\ Len(output.merged) = 2
    /\ output.merged[1].rowId = << "scraped", 1 >>
    /\ output.merged[2].rowId = << "combined", 1 >>

(***************************************************************************)
(* lib/google-sheets: calculateStats                                       *)
(***************************************************************************)
\* .slice(0, 10)
TopN == 10

\* e.Company && e.Company.trim() !== ''
hasValue(v) == truthy(v) /\ trim(v) # << >>

\* the Map after the forEach over the values from position i on: its
\* entries in insertion order
RECURSIVE countFrom(_, _, _)
countFrom(values, i, counts) ==
    IF i > Len(values) THEN counts
    ELSE LET name == trim(values[i])
             at   == {k \in 1..Len(counts) : counts[k].name = name}
         IN  IF at = {}
             THEN countFrom(values, i + 1, Append(counts, [name |-> name, count |-> 1]))
             ELSE countFrom(values, i + 1,
                      [k \in 1..Len(counts) |->
                          IF k \in at THEN [counts[k] EXCEPT !.count = @ + 1] ELSE counts[k]])

\* item put in its place in a list sorted by (a, b) => b.count - a.count:
\* behind every item that does not have a smaller count
insertByCount(sorted, item) ==
    LET before == {k \in 1..Len(sorted) : sorted[k].count >= item.count}
        n      == IF before = {} THEN 0 ELSE CHOOSE k \in before : \A j \in before : j <= k
    IN  SubSeq(sorted, 1, n) \o << item >> \o SubSeq(sorted, n + 1, Len(sorted))

\* Array.prototype.sort with that comparator, which is stable
RECURSIVE sortByCountFrom(_, _, _)
sortByCountFrom(items, i, sorted) ==
    IF i > Len(items) THEN sorted
    ELSE sortByCountFrom(items, i + 1, insertByCount(sorted, items[i]))

\* .slice(0, n)
slice0(arr, n) == SubSeq(arr, 1, IF Len(arr) < n THEN Len(arr) ELSE n)

\* a top list that is cut before it is sorted
topCountsCutFirst(values) ==
    sortByCountFrom(slice0(countFrom(SelectSeq(values, hasValue), 1, << >>), TopN), 1, << >>)

\* topCompanies and topRoles, from the Company or Role value of every entry
topCounts(values) ==
    slice0(sortByCountFrom(countFrom(SelectSeq(values, hasValue), 1, << >>), 1, << >>), TopN)

\* calculateStats (the engagement figures and the unique companies and
\* roles are left out)
calculateStats(indexEntries, scrapedEntries, dmEntries) ==
    [ totalPosts   |-> Len(indexEntries),
      totalScraped |-> Len(scrapedEntries),
      totalLeads   |-> Len(dmEntries),
      topCompanies |-> topCounts([k \in 1..Len(scrapedEntries) |-> scrapedEntries[k].Company]),
      topRoles     |-> topCounts([k \in 1..Len(scrapedEntries) |-> scrapedEntries[k].Role]) ]

(***************************************************************************)
(* calculateStats, applied to bounded lists of entries                     *)
(***************************************************************************)
\* entries beyond the run of entries with companies and roles of their own
MaxStatsTail == 2

\* a run of n entries, each with a company and a role no other entry of the
\* run has
StatsRun(n) == [k \in 1..n |-> [Company |-> << Lower[k] >>, Role |-> << "r", Lower[k] >>]]

\* the other entries: companies and roles of the run again, untrimmed,
\* missing or blank
StatsEntries ==
    { [Company |-> <<"a">>,   Role |-> <<"r","b">>],
      [Company |-> <<" ","a"," ">>, Role |-> NULL],
      [Company |-> <<"b">>,   Role |-> <<"r","b"," ">>],
      [Company |-> NULL,   Role |-> <<"r","k">>],
      [Company |-> <<" ">>,   Role |-> << >>],
      [Company |-> <<"k">>,   Role |-> <<"r","a">>] }

RECURSIVE StatsTails(_)
StatsTails(n) ==
    IF n = 0 THEN { << >> }
    ELSE StatsTails(n - 1)
            \cup { Append(l, e) : l \in { h \in StatsTails(n - 1) : Len(h) = n - 1 },
                                  e \in StatsEntries }

StatsLists ==
    { StatsRun(n) \o tail : n \in 0..(TopN + 1), tail \in StatsTails(MaxStatsTail) }
        \cup { tail \o StatsRun(n) : n \in 0..(TopN + 1), tail \in StatsTails(MaxStatsTail) }

\* calculateStats reads only the length of the index and of the leads
OtherLists == { << >>, << "e", "e" >> }

NoStats == [done |-> FALSE]

InitStats ==
    /\ input \in [indexEntries : OtherLists, scrapedEntries : StatsLists,
                  dmEntries : OtherLists]
    /\ output = NoStats
    /\ FlowIdle

\* the dashboard page computes the statistics of what it fetched
ComputeStats ==
    /\ ~output.done
    /\ output' = [done |-> TRUE,
                  stats |-> calculateStats(input.indexEntries, input.scrapedEntries,
                                           input.dmEntries)]
    /\ UNCHANGED << input, flowVars >>

NextStats == ComputeStats

SpecStats == InitStats /\ [][NextStats]_vars

(***************************************************************************)
(* C17: the three totals are the lengths of the three inputs; topCompanies *)
(* and topRoles list at most 10 names with, for each, the number of        *)
(* entries that have that trimmed name, ordered by count descending and,   *)
(* among equal counts, by first occurrence in the input; a name left out   *)
(* comes behind every listed name in that order.                           *)
(***************************************************************************)
\* the statement for one of the two lists and the values it is made from
isTopList(top, values) ==
    LET named(x)  == {i \in 1..Len(values) : hasValue(values[i]) /\ trim(values[i]) = x}
        names     == {trim(values[i]) : i \in {j \in 1..Len(values) : hasValue(values[j])}}
        first(x)  == CHOOSE i \in named(x) : \A j \in named(x) : i <= j
        ahead(x, y) == \/ Cardinality(named(x)) > Cardinality(named(y))
                       \/ /\ Cardinality(named(x)) = Cardinality(named(y))
                          /\ first(x) < first(y)
        listed    == {top[k].name : k \in 1..Len(top)}
    IN  /\ Len(top) = IF Cardinality(names) < 10 THEN Cardinality(names) ELSE 10
        /\ listed \subseteq names
        /\ \A k \in 1..Len(top) : top[k].count = Cardinality(named(top[k].name))
        \* ahead is a strict total order on names: neighbours suffice
        /\ \A k \in 1..(Len(top) - 1) : ahead(top[k].name, top[k + 1].name)
        /\ \A x \in names \ listed : ahead(top[Len(top)].name, x)

C17_TotalsAndTopLists ==
    output.done =>
        /\ output.stats.totalPosts = Len(input.indexEntries)
        /\ output.stats.totalScraped = Len(input.scrapedEntries)
        /\ output.stats.totalLeads = Len(input.dmEntries)
        /\ isTopList(output.stats.topCompanies,
                     [k \in 1..Len(input.scrapedEntries) |-> input.scrapedEntries[k].Company])
        /\ isTopList(output.stats.topRoles,
                     [k \in 1..Len(input.scrapedEntries) |-> input.scrapedEntries[k].Role])

\* eleven companies, the last of them met twice more: it heads the list,
\* the others follow in input order and the tenth of them is cut off
C17_Witness ==
    /\ output.done
    /\ Len(input.scrapedEntries) = 13
    /\ Len(output.stats.topCompanies) = 10
    /\ output.stats.topCompanies[1] = [name |-> <<"k">>, count |-> 3]
    /\ output.stats.topCompanies[2] = [name |-> <<"a">>, count |-> 1]
    /\ output.stats.topCompanies[10] = [name |-> <<"i">>, count |-> 1]

(***************************************************************************)
(* lib/google-sheets and api/message/update: parseCSV                      *)
(***************************************************************************)
\* text[i] for a 0-based i; "undefined" past the end, which is no character
charAt(text, i) == IF i + 1 \in 1..Len(text) THEN text[i + 1] ELSE "undefined"

\* the statement after the loop: the last cell and row, if not empty
parseEnd(rows, currentRow, currentCell) ==
    IF currentCell # << >> \/ Len(currentRow) > 0
    THEN Append(rows, Append(currentRow, currentCell))
    ELSE rows

\* the loop of parseCSV from the 0-based position i on, and what follows it
RECURSIVE parseFrom(_, _, _, _, _, _)
parseFrom(text, i, rows, currentRow, currentCell, inQuotes) ==
    IF i >= Len(text) THEN parseEnd(rows, currentRow, currentCell)
    ELSE LET char     == charAt(text, i)
             nextChar == charAt(text, i + 1)
         IN  IF char = "\""
             THEN IF inQuotes /\ nextChar = "\""
                  THEN parseFrom(text, i + 2, rows, currentRow,
                                 Append(currentCell, "\""), inQuotes)
                  ELSE parseFrom(text, i + 1, rows, currentRow, currentCell, ~inQuotes)
             ELSE IF char = "," /\ ~inQuotes
             THEN parseFrom(text, i + 1, rows, Append(currentRow, currentCell),
                            << >>, inQuotes)
             ELSE IF (char = "\n" \/ char = "\r") /\ ~inQuotes
             THEN parseFrom(text, IF char = "\r" /\ nextChar = "\n" THEN i + 2 ELSE i + 1,
                            Append(rows, Append(currentRow, currentCell)),
                            << >>, << >>, inQuotes)
             ELSE parseFrom(text, i + 1, rows, currentRow,
                            Append(currentCell, char), inQuotes)

\* parseCSV(text)
parseCSV(text) == parseFrom(text, 0, << >>, << >>, << >>, FALSE)

(***************************************************************************)
(* components/DashboardClient: escapeCSV and the joins of the export       *)
(***************************************************************************)
\* stringValue.replace(/"/g, '""') from position i on
RECURSIVE doubleQuotes(_, _)
doubleQuotes(s, i) ==
    IF i > Len(s) THEN << >>
    ELSE (IF s[i] = "\"" THEN << "\"", "\"" >> ELSE << s[i] >>) \o doubleQuotes(s, i + 1)

\* escapeCSV(value)
escapeCSV(value) ==
    IF ~truthy(value) THEN << >>
    ELSE IF includes(value, <<",">>) \/ includes(value, << "\"" >>) \/ includes(value, << "\n" >>)
         THEN << "\"" >> \o doubleQuotes(value, 1) \o << "\"" >>
         ELSE value

\* Array.prototype.join from position i on
RECURSIVE join(_, _, _)
join(parts, separator, i) ==
    IF i > Len(parts) THEN << >>
    ELSE IF i = Len(parts) THEN parts[i]
    ELSE parts[i] \o separator \o join(parts, separator, i + 1)

\* the export's encoding of the rows: cells escaped and joined with ',',
\* rows joined with '\n'
csvContent(grid) ==
    join([r \in 1..Len(grid) |->
              join([c \in 1..Len(grid[r]) |-> escapeCSV(grid[r][c])], <<",">>, 1)],
         << "\n" >>, 1)

(***************************************************************************)
(* The decoder, applied to bounded texts and to encoded grids              *)
(***************************************************************************)
\* characters of a text handed to the decoder
MaxCsvLen == 4
\* rows and columns of a grid that is encoded and decoded again
MaxCsvSide == 2

CsvChars == { "a", ",", "\"", "\n", "\r" }

RECURSIVE CsvTexts(_)
CsvTexts(n) ==
    IF n = 0 THEN { << >> }
    ELSE CsvTexts(n - 1)
            \cup { Append(t, c) : t \in { u \in CsvTexts(n - 1) : Len(u) = n - 1 },
                                  c \in CsvChars }

\* the cells of the grids: empty, plain, and with each of the characters
\* the encoding is about
CsvCells == { << >>, <<"a">>, <<",">>, << "\"" >>, << "\n" >>, << "a", "\"", "b" >>, <<"a",",","b">>,
              << "\"", "\"" >> }

CsvGrids ==
    UNION { [1..r -> [1..c -> CsvCells]] : r \in 0..MaxCsvSide, c \in 1..MaxCsvSide }

NoRows == [done |-> FALSE, rows |-> << >>]

InitCsv ==
    /\ \/ input \in [kind : {"text"}, text : CsvTexts(MaxCsvLen), grid : { << >> }]
       \/ input \in [kind : {"grid"}, text : { << >> }, grid : CsvGrids]
    /\ output = NoRows
    /\ FlowIdle

\* a builder decodes the text of an export
CsvDecode ==
    /\ ~output.done
    /\ input.kind = "text"
    /\ output' = [done |-> TRUE, rows |-> parseCSV(input.text)]
    /\ UNCHANGED << input, flowVars >>

\* a grid is encoded as the export encodes its rows, and decoded
CsvRoundTrip ==
    /\ ~output.done
    /\ input.kind = "grid"
    /\ output' = [done |-> TRUE, rows |-> parseCSV(csvContent(input.grid))]
    /\ UNCHANGED << input, flowVars >>

NextCsv == CsvDecode \/ CsvRoundTrip

SpecCsv == InitCsv /\ [][NextCsv]_vars

(***************************************************************************)
(* C18: decoding the encoding of a rectangular grid of strings gives the   *)
(* grid back, whatever commas, double quotes, newlines and empty cells it  *)
(* holds.                                                                  *)
(***************************************************************************)
C18_RoundTrip ==
    (output.done /\ input.kind = "grid") => output.rows = input.grid

(***************************************************************************)
(* The rows of a text, told from its characters                            *)
(***************************************************************************)
\* the double quotes among the first n characters of the text
RECURSIVE quotesIn(_, _)
quotesIn(text, n) ==
    IF n = 0 THEN 0
    ELSE quotesIn(text, n - 1) + (IF text[n] = "\"" THEN 1 ELSE 0)

\* the character at i is a line break outside quotes
breaksAt(text, i) ==
    /\ text[i] \in { "\n", "\r" }
    /\ quotesIn(text, i - 1) % 2 = 0

\* the line break at i closes a row: it is not the '\n' of a '\r\n' pair
\* whose '\r' closed one
closesRow(text, i) ==
    /\ breaksAt(text, i)
    /\ ~(text[i] = "\n" /\ i > 1 /\ text[i - 1] = "\r" /\ breaksAt(text, i - 1))

\* the characters after the last line break outside quotes
lastRowText(text) ==
    LET breaks == { i \in 1..Len(text) : breaksAt(text, i) }
        from   == IF breaks = {} THEN 1
                  ELSE 1 + CHOOSE i \in breaks : \A j \in breaks : j <= i
    IN  SubSeq(text, from, Len(text))

\* the rows the text holds: one for each closing line break and one for an
\* unterminated last row
rowsOf(text) ==
    Cardinality({ i \in 1..Len(text) : closesRow(text, i) })
        + (IF lastRowText(text) # << >> THEN 1 ELSE 0)

(***************************************************************************)
(* C19: the decoder returns no row for the empty text; a last row without  *)
(* a terminating line break is still returned, also when its only cell is  *)
(* empty or quoted-empty; '\r\n' closes exactly one row; after an          *)
(* unbalanced quote every later comma and line break is kept literally in  *)
(* the open cell.                                                          *)
(***************************************************************************)
C19_DecoderRows ==
    (output.done /\ input.kind = "text") =>
        LET text == input.text
            rows == output.rows
        IN  /\ text = << >> => rows = << >>
            /\ Len(rows) = rowsOf(text)
            /\ \A q \in 1..Len(text) :
                   (text[q] = "\"" /\ quotesIn(text, Len(text)) = 1 /\ q < Len(text)) =>
                       /\ rows # << >>
                       /\ LET last == rows[Len(rows)]
                              open == last[Len(last)]
                              rest == SubSeq(text, q + 1, Len(text))
                          IN  /\ Len(open) >= Len(rest)
                              /\ SubSeq(open, Len(open) - Len(rest) + 1, Len(open)) = rest

(***************************************************************************)
(* getCell's choice of a column, on bounded header rows                    *)
(***************************************************************************)
\* header cells of a row handed to the resolver
MaxHeaders == 3

\* header cells: blank ones, the name itself in another case and with
\* spaces around it, a part of a name, and synonyms of the table
HeaderCells == { << >>, <<" ">>, <<"F","i","r","s","t"," ","N","a","m","e">>, <<" ","f","i","r","s","t"," ","n","a","m","e"," ">>, <<"N","a","m","e">>, <<"f","n","a","m","e">>,
                 <<"S","u","r","n","a","m","e">>, <<"l","n","a","m","e">>, <<"O","r","g">> }

\* names the builders ask for, and one the table does not hold
ResolvedNames == { <<"F","i","r","s","t"," ","N","a","m","e">>, <<"L","a","s","t"," ","N","a","m","e">>, <<"C","o","m","p","a","n","y">>, <<"O","w","n","e","r">> }

ResolverRows == UNION { [1..n -> HeaderCells] : n \in 0..MaxHeaders }

NoIndex == [done |-> FALSE, index |-> -1]

InitResolve ==
    /\ input \in [headers : ResolverRows, columnName : ResolvedNames]
    /\ output = NoIndex
    /\ FlowIdle

\* a builder resolves a column of a header row
Resolve ==
    /\ ~output.done
    /\ output' = [done |-> TRUE, index |-> getCellIndex(input.headers, input.columnName)]
    /\ UNCHANGED << input, flowVars >>

NextResolve == Resolve

SpecResolve == InitResolve /\ [][NextResolve]_vars

\* the header relates to the target: it names a column, and is equal to the
\* target, contains it or is contained in it (case-insensitive, trimmed)
headerMatches(header, target) ==
    LET normalizedHeader == trim(toLowerCase(header))
    IN  /\ normalizedHeader # << >>
        /\ \/ normalizedHeader = target
           \/ includes(normalizedHeader, target)
           \/ includes(target, normalizedHeader)

\* 0-based position of the leftmost header of the set, -1 for the empty set
leftmost(positions) ==
    IF positions = {} THEN -1
    ELSE (CHOOSE i \in positions : \A j \in positions : i <= j) - 1

\* the column the three tiers select
tieredIndex(headers, columnName) ==
    LET name      == trim(toLowerCase(columnName))
        equal     == { i \in 1..Len(headers) : trim(toLowerCase(headers[i])) = name }
        related   == { i \in 1..Len(headers) : headerMatches(headers[i], name) }
        synonyms  == variations(name)
        matching(n) == { i \in 1..Len(headers) : headerMatches(headers[i], synonyms[n]) }
        usable    == { n \in 1..Len(synonyms) : matching(n) # {} }
    IN  IF equal # {} THEN leftmost(equal)
        ELSE IF related # {} THEN leftmost(related)
        ELSE IF usable # {}
             THEN leftmost(matching(CHOOSE n \in usable : \A m \in usable : n <= m))
             ELSE -1

(***************************************************************************)
(* C20: the resolver picks the leftmost header equal to the name           *)
(* (case-insensitive, trimmed); else the leftmost header that contains the *)
(* name or is contained in it; else, for the first synonym of the table    *)
(* that matches a header by the same rule, the leftmost such header; and   *)
(* it finds no column exactly when no tier matches.                        *)
(***************************************************************************)
C20_ThreeTierPriority ==
    output.done => output.index = tieredIndex(input.headers, input.columnName)

(***************************************************************************)
(* C21: a tab whose header row has both a DM column with an approval       *)
(* column and a name column with a profile or post column is a             *)
(* message-queue tab: the profile builder makes no entry from it.          *)
(***************************************************************************)
C21_MessageQueueFirst ==
    LET normalizedHeaders == normalizeHeaders(input.rows[1])
        has(name)         == some(normalizedHeaders, LAMBDA h : includes(h, name))
    IN  ( /\ output.done
          /\ some(normalizedHeaders, LAMBDA h :
                 includes(h, <<"d","m">>) /\ ~includes(h, <<"p","r","o","f","i","l","e">>))
          /\ has(<<"a","p","p","r","o","v","a","l">>)
          /\ has(<<"f","i","r","s","t"," ","n","a","m","e">>) \/ has(<<"l","a","s","t"," ","n","a","m","e">>)
          /\ has(<<"p","r","o","f","i","l","e"," ","u","r","l">>) \/ has(<<"l","i","n","k","e","d","i","n"," ","p","o","s","t">>) \/ has(<<"p","o","s","t"," ","u","s","e","r">>) )
        => output.entries = << >>

\* a tab with both signatures and a row with a name and a profile URL
C21_Witness ==
    /\ output.done
    /\ input.rows[1] = << <<"F","i","r","s","t"," ","N","a","m","e">>, <<"P","r","o","f","i","l","e"," ","U","R","L">>, <<"D","M">>, <<"A","p","p","r","o","v","a","l">> >>
    /\ Len(input.rows) = 2
    /\ truthy(cell(input.rows[2], input.rows[1], <<"F","i","r","s","t"," ","N","a","m","e">>))
    /\ truthy(cell(input.rows[2], input.rows[1], <<"P","r","o","f","i","l","e"," ","U","R","L">>))
    /\ output.entries = << >>

(***************************************************************************)
(* lib/google-sheets: fetchAllScrapedData, and app/dashboard: the load     *)
(***************************************************************************)
\* posts of the Index sheet
MaxIndex == 2
\* edits of the Index sheet by its owner while the dashboard loads
MaxIndexEdits == 1

\* post.gid of a post whose Sheet_Link gave no tab id
undefined == -1

\* a builder that reads the body of the response whatever its status
fetchScrapedTabAnyStatus(response, postUrl) ==
    IF response.fails THEN << >>
    ELSE IF \/ ~truthy(response.text) \/ Len(trim(response.text)) = 0
            \/ includes(response.text, <<"<","!","D","O","C","T","Y","P","E">>)
         THEN << >>
         ELSE fetchScrapedDataSheet(parseCSV(response.text), postUrl)

\* fetchScrapedDataSheet from the fetch of the export on: a rejected fetch
\* (caught), a status other than 2xx, an empty or HTML body, and the rest
fetchScrapedTab(response, postUrl) ==
    IF response.fails THEN << >>
    ELSE IF ~response.ok THEN << >>
    ELSE IF \/ ~truthy(response.text) \/ Len(trim(response.text)) = 0
            \/ includes(response.text, <<"<","!","D","O","C","T","Y","P","E">>)
         THEN << >>
         ELSE fetchScrapedDataSheet(parseCSV(response.text), postUrl)

\* what the fetch of a tab's export may give
TabResponses ==
    { [fails |-> TRUE,  ok |-> FALSE, text |-> << >>],
      [fails |-> FALSE, ok |-> FALSE, text |-> <<"L","a","s","t"," ","N","a","m","e",",","P","r","o","f","i","l","e"," ","U","R","L","\n","x",",","u">>],
      [fails |-> FALSE, ok |-> TRUE,  text |-> <<"<","!","D","O","C","T","Y","P","E"," ","h","t","m","l",">">>],
      [fails |-> FALSE, ok |-> TRUE,  text |-> <<"C","o","m","p","a","n","y",",","R","o","l","e","\n","x",",","x">>],
      [fails |-> FALSE, ok |-> TRUE,  text |-> <<"L","a","s","t"," ","N","a","m","e",",","P","r","o","f","i","l","e"," ","U","R","L","\n","x",",","u","\n",",","\n","y",",">>] }

\* the tabs the posts of the Index sheet point to
TabIds == { 1, 2 }

\* posts of the Index sheet, as parseIndexSheet makes them
IndexPosts ==
    [gid : TabIds, postUrl : { <<"u">> }] \cup { [gid |-> undefined, postUrl |-> <<"v">>] }

RECURSIVE IndexLists(_)
IndexLists(n) ==
    IF n = 0 THEN { << >> }
    ELSE IndexLists(n - 1)
            \cup { Append(l, p) : l \in { m \in IndexLists(n - 1) : Len(m) = n - 1 },
                                  p \in IndexPosts }

\* the load before its first fetch
LoadStart ==
    [ pc |-> "page", indexEntries |-> << >>, indexData |-> << >>, i |-> 0,
      allEntries |-> << >>, scrapedEntries |-> << >>, indexFetches |-> 0,
      stats |-> [totalPosts |-> 0, totalScraped |-> 0], error |-> NULL ]

InitLoad ==
    /\ input \in [index : IndexLists(MaxIndex), tabs : [TabIds -> TabResponses],
                  edits : {0}]
    /\ output = LoadStart
    /\ FlowIdle

\* the owner of the spreadsheet adds a post to the Index sheet or removes
\* its last one
ExternalIndexEdit ==
    /\ input.edits < MaxIndexEdits
    /\ output.pc # "done"
    /\ \E index \in IndexLists(MaxIndex + 1) :
          /\ \/ Len(input.index) > 0 /\ index = SubSeq(input.index, 1, Len(input.index) - 1)
             \/ \E p \in IndexPosts : index = Append(input.index, p)
          /\ input' = [input EXCEPT !.index = index, !.edits = @ + 1]
    /\ UNCHANGED << output, flowVars >>

\* DashboardPage: indexEntries = await fetchIndexSheetData()
PageFetchIndex ==
    /\ output.pc = "page"
    /\ output' = [output EXCEPT !.pc = "scraped", !.indexEntries = input.index,
                                !.indexFetches = @ + 1]
    /\ UNCHANGED << input, flowVars >>

\* fetchAllScrapedData: indexData = await fetchIndexSheetData()
ScrapedFetchIndex ==
    /\ output.pc = "scraped"
    /\ output' = [output EXCEPT !.pc = "tabs", !.indexData = input.index, !.i = 1,
                                !.indexFetches = @ + 1]
    /\ UNCHANGED << input, flowVars >>

\* one turn of the loop over the posts, for a post with a gid
ScrapedFetchTab ==
    /\ output.pc = "tabs"
    /\ output.i <= Len(output.indexData)
    /\ LET post == output.indexData[output.i]
       IN  /\ post.gid # undefined /\ post.gid # 0
           /\ output' = [output EXCEPT
                  !.i = @ + 1,
                  !.allEntries = @ \o fetchScrapedTab(input.tabs[post.gid], post.postUrl)]
    /\ UNCHANGED << input, flowVars >>

\* one turn of the loop, for a post without a gid
ScrapedSkipTab ==
    /\ output.pc = "tabs"
    /\ output.i <= Len(output.indexData)
    /\ LET post == output.indexData[output.i]
       IN  post.gid = undefined \/ post.gid = 0
    /\ output' = [output EXCEPT !.i = @ + 1]
    /\ UNCHANGED << input, flowVars >>

\* fetchAllScrapedData returns allEntries to the page
ScrapedReturn ==
    /\ output.pc = "tabs"
    /\ output.i > Len(output.indexData)
    /\ output' = [output EXCEPT !.pc = "dm", !.scrapedEntries = output.allEntries]
    /\ UNCHANGED << input, flowVars >>

\* fetchAllDMData returns: at once when the Combined Leads tab has entries,
\* else after a fetch of the Index sheet of its own; the page then computes
\* the statistics
DMReturn ==
    /\ output.pc = "dm"
    /\ \E early \in BOOLEAN :
          output' = [output EXCEPT
              !.pc = "done",
              !.indexFetches = IF early THEN @ ELSE @ + 1,
              !.stats = [totalPosts   |-> Len(output.indexEntries),
                         totalScraped |-> Len(output.scrapedEntries)]]
    /\ UNCHANGED << input, flowVars >>

NextLoad ==
    \/ ExternalIndexEdit
    \/ PageFetchIndex
    \/ ScrapedFetchIndex
    \/ ScrapedFetchTab
    \/ ScrapedSkipTab
    \/ ScrapedReturn
    \/ DMReturn

SpecLoad == InitLoad /\ [][NextLoad]_vars

\* the tab answered with a CSV export of a profile-data tab with data rows
tabLoaded(response) ==
    /\ ~response.fails
    /\ response.ok
    /\ response.text # << >>
    /\ ~includes(response.text, <<"<","!","D","O","C","T","Y","P","E">>)
    /\ Len(parseCSV(response.text)) > 1
    /\ scrapedKindOf[parseCSV(response.text)[1]] = "scraped"

\* the entries of the tabs that loaded, in the order of the posts from
\* position i on
RECURSIVE loadedEntries(_, _, _)
loadedEntries(indexData, tabs, i) ==
    IF i > Len(indexData) THEN << >>
    ELSE (IF indexData[i].gid \in TabIds /\ tabLoaded(tabs[indexData[i].gid])
          THEN scrapedLoop(parseCSV(tabs[indexData[i].gid].text), indexData[i].postUrl,
                           1, 1, << >>)
          ELSE << >>) \o loadedEntries(indexData, tabs, i + 1)

(***************************************************************************)
(* C22: a tab that fails (rejected fetch, status other than 2xx, empty or  *)
(* HTML body, unrecognized header) adds no record and does not stop the    *)
(* load: the profile collection is the concatenation, in the order of the  *)
(* posts, of the entries of the tabs that loaded, and the load ends        *)
(* without an error for the user.                                          *)
(***************************************************************************)
C22_FailedTabsAddNothing ==
    output.pc \in { "dm", "done" } =>
        /\ output.scrapedEntries = loadedEntries(output.indexData, input.tabs, 1)
        /\ output.error = NULL

\* two posts: the tab of the first is answered with a 500 status, the tab
\* of the second loads and gives its two entries
C22_Witness ==
    /\ output.pc = "done"
    /\ Len(output.indexData) = 2
    /\ output.indexData[1].gid = 1
    /\ output.indexData[2].gid = 2
    /\ ~input.tabs[1].ok /\ ~input.tabs[1].fails
    /\ tabLoaded(input.tabs[2])
    /\ Len(output.scrapedEntries) = 2
    /\ output.scrapedEntries[2].rowId = 2
    /\ output.error = NULL

(***************************************************************************)
(* C26: a dashboard load fetches the Index sheet exactly once; the tab     *)
(* fetches and the statistics totalPosts and totalScraped come from that   *)
(* one snapshot, and the statistics are computed only after every tab      *)
(* fetch has completed or failed.                                          *)
(***************************************************************************)
C26_OneIndexSnapshot ==
    output.pc = "done" =>
        /\ output.indexFetches = 1
        /\ output.indexData = output.indexEntries
        /\ output.stats.totalPosts = Len(output.indexEntries)
        /\ output.stats.totalScraped =
               Len(loadedEntries(output.indexEntries, input.tabs, 1))
        /\ output.i > Len(output.indexData)

(***************************************************************************)
(* The approval state of a message entry, on bounded approval cells        *)
(***************************************************************************)
\* words written into the approval cell
ApprovalWords ==
    { << >>, <<"r","e","j","e","c","t">>, <<"r","e","j","e","c","t","e","d">>, <<"s","e","n","t">>, <<"a","p","p","r","o","v","e">>, <<"a","p","p","r","o","v","e","d">>, <<"a","p","p","r","o","v","a","l">>,
      <<"p","e","n","d","i","n","g">>, <<"r","e","j","e","c","t","s">>, <<"s","e","n">>, <<"r","e"," ","j","e","c","t">>, <<"n","o","t"," ","s","e","n","t">> }

\* String.prototype.toUpperCase
toUpperCase(s) ==
    [i \in 1..Len(s) |->
        IF \E k \in DOMAIN Lower : Lower[k] = s[i]
        THEN Upper[CHOOSE k \in DOMAIN Lower : Lower[k] = s[i]]
        ELSE s[i]]

\* the words in lower case, in upper case and capitalized, as they are and
\* with whitespace before or after them
ApprovalCells ==
    { before \o word \o after :
        before \in { << >>, <<" ">> },
        after  \in { << >>, <<" ">>, << "\n" >> },
        word   \in UNION { { w, toUpperCase(w),
                             [i \in 1..Len(w) |->
                                 IF i = 1 THEN toUpperCase(w)[i] ELSE w[i]] } :
                           w \in ApprovalWords } }

\* header rows with an approval column and without one
ApprovalHeaders == { << <<"A","p","p","r","o","v","a","l">> >>, << <<"A","p","p","r","o","v","a","l"," ","S","t","a","t","u","s">> >>, << <<"F","i","r","s","t"," ","N","a","m","e">> >> }

NoApproval == [done |-> FALSE, approval |-> "approval"]

\* a row of one cell, or of none, under a header row of one column
InitApproval ==
    /\ input \in [headers : ApprovalHeaders,
                  row : { << c >> : c \in ApprovalCells } \cup { << >> }]
    /\ output = NoApproval
    /\ FlowIdle

\* the message builder reads the approval state of the row
ReadApproval ==
    /\ ~output.done
    /\ output' = [done |-> TRUE,
                  approval |-> normalizeApproval(getCell(input.row, input.headers,
                                                         <<"A","p","p","r","o","v","a","l">>))]
    /\ UNCHANGED << input, flowVars >>

NextApproval == ReadApproval

SpecApproval == InitApproval /\ [][NextApproval]_vars

(***************************************************************************)
(* C23: the approval state of an entry is Pending ('approval'), Rejected   *)
(* or Sent: Rejected for the cell 'reject' or 'rejected', Sent for 'sent'  *)
(* (in any case, whitespace around them), and Pending when the cell is     *)
(* absent, empty or holds anything else.                                   *)
(***************************************************************************)
C23_ApprovalState ==
    output.done =>
        LET absent == input.headers = << <<"F","i","r","s","t"," ","N","a","m","e">> >> \/ input.row = << >>
            written == IF absent THEN << >> ELSE trim(toLowerCase(input.row[1]))
        IN  /\ output.approval \in { "approval", "reject", "sent" }
            /\ output.approval = "reject" <=> written \in { <<"r","e","j","e","c","t">>, <<"r","e","j","e","c","t","e","d">> }
            /\ output.approval = "sent" <=> written = <<"s","e","n","t">>

\* the cell ' REJECTED' with a newline after it gave Rejected
C23_Witness ==
    /\ output.done
    /\ input.headers = << <<"A","p","p","r","o","v","a","l"," ","S","t","a","t","u","s">> >>
    /\ input.row = << <<" ","R","E","J","E","C","T","E","D">> \o << "\n" >> >>
    /\ output.approval = "reject"

(***************************************************************************)
(* lib/google-sheets: extractGidFromUrl and the gid of an Index entry      *)
(***************************************************************************)
Digits == << "0", "1", "2", "3", "4", "5", "6", "7", "8", "9" >>

isDigit(c) == \E d \in DOMAIN Digits : Digits[d] = c

\* parseInt(digits, 10) of a string of decimal digits
RECURSIVE parseInt(_)
parseInt(digits) ==
    IF digits = << >> THEN 0
    ELSE 10 * parseInt(SubSeq(digits, 1, Len(digits) - 1))
            + (CHOOSE d \in DOMAIN Digits : Digits[d] = digits[Len(digits)]) - 1

\* url.match(marker followed by (\d+)): the digits captured at the leftmost
\* match, as many as there are, or NULL without a match
matchDigits(url, marker) ==
    LET starts == { i \in 1..Len(url) :
                      /\ i + Len(marker) <= Len(url)
                      /\ SubSeq(url, i, i + Len(marker) - 1) = marker
                      /\ isDigit(url[i + Len(marker)]) }
    IN  IF starts = {} THEN NULL
        ELSE LET first == (CHOOSE i \in starts : \A j \in starts : i <= j) + Len(marker)
                 ends  == { e \in first..Len(url) :
                              /\ \A k \in first..e : isDigit(url[k])
                              /\ e = Len(url) \/ ~isDigit(url[e + 1]) }
             IN  SubSeq(url, first, CHOOSE e \in ends : TRUE)

\* extractGidFromUrl(url); its null is written undefined, which is what
\* parseIndexSheet makes of it
extractGidFromUrl(url) ==
    IF ~truthy(url) \/ trim(url) = << >> THEN undefined
    ELSE IF matchDigits(url, <<"#","g","i","d","=">>) # NULL THEN parseInt(matchDigits(url, <<"#","g","i","d","=">>))
    ELSE IF matchDigits(url, <<"&","g","i","d","=">>) # NULL THEN parseInt(matchDigits(url, <<"&","g","i","d","=">>))
    ELSE undefined

\* parseIndexSheet: gid: gid || undefined
indexGid(sheetLink) ==
    LET gid == extractGidFromUrl(sheetLink)
    IN  IF gid = undefined \/ gid = 0 THEN undefined ELSE gid

(***************************************************************************)
(* The gid of an Index entry, on bounded sheet links                       *)
(***************************************************************************)
\* parts a sheet link is made of
MaxLinkParts == 3

LinkParts == { <<"#","g","i","d","=">>, <<"&","g","i","d","=">>, <<"?","g","i","d","=">>, <<"0">>, <<"1">>, <<"2">>, <<"x">>, <<"/","e","d","i","t">> }

RECURSIVE SheetLinks(_)
SheetLinks(n) ==
    IF n = 0 THEN { <<"d">> }
    ELSE SheetLinks(n - 1) \cup { l \o p : l \in SheetLinks(n - 1), p \in LinkParts }

NoGid == [done |-> FALSE, gid |-> undefined]

InitGid ==
    /\ input \in SheetLinks(MaxLinkParts)
    /\ output = NoGid
    /\ FlowIdle

\* parseIndexSheet makes the entry of a row with this Sheet_Link
ReadGid ==
    /\ ~output.done
    /\ output' = [done |-> TRUE, gid |-> indexGid(input)]
    /\ UNCHANGED << input, flowVars >>

NextGid == ReadGid

SpecGid == InitGid /\ [][NextGid]_vars

(***************************************************************************)
(* C24: the tab id of an Index entry is present and equal to the decimal   *)
(* number in its sheet link whenever the link contains '#gid=<digits>' or  *)
(* '&gid=<digits>' ('#gid=' first), for every tab id from 0 on; it is      *)
(* absent only when the link holds no such parameter.                      *)
(***************************************************************************)
C24_TabIdFromLink ==
    output.done =>
        LET hash == matchDigits(input, <<"#","g","i","d","=">>)
            amp  == matchDigits(input, <<"&","g","i","d","=">>)
        IN  /\ hash # NULL => output.gid = parseInt(hash)
            /\ (hash = NULL /\ amp # NULL) => output.gid = parseInt(amp)
            /\ output.gid = undefined => (hash = NULL /\ amp = NULL)

(***************************************************************************)
(* The classification of a tab, on bounded header rows                     *)
(***************************************************************************)
\* header cells of a classified tab
MaxClassified == 2

\* headers with the names the flags look for, with parts and synonyms of
\* them, and the headers of a DM tab
ClassifiedCells ==
    { <<"F","i","r","s","t"," ","N","a","m","e">>, <<"N","a","m","e">>, <<"f","n","a","m","e">>, <<"S","u","r","n","a","m","e">>, <<"P","r","o","f","i","l","e"," ","U","R","L">>, <<"P","r","o","f","i","l","e">>,
      <<"L","i","n","k","e","d","I","n"," ","U","R","L">>, <<"P","o","s","t">>, <<"P","o","s","t"," ","U","s","e","r">>, <<"D","M">>, <<"A","p","p","r","o","v","a","l">>, <<"C","o","m","p","a","n","y">> }

ClassifiedRows == UNION { [1..n -> ClassifiedCells] : n \in 0..MaxClassified }

\* the canonical field each presence flag stands for
FlagFields ==
    [ hasFirstName        |-> <<"F","i","r","s","t"," ","N","a","m","e">>,
      hasLastName         |-> <<"L","a","s","t"," ","N","a","m","e">>,
      hasProfileUrl       |-> <<"P","r","o","f","i","l","e"," ","U","R","L">>,
      hasLinkedInPost     |-> <<"L","i","n","k","e","d","i","n"," ","P","o","s","t">>,
      hasLinkedInPostUser |-> <<"L","i","n","k","e","d","I","n"," ","P","o","s","t"," ","U","s","e","r">> ]

NoKind == [done |-> FALSE, kind |-> "none", flags |-> [f \in DOMAIN FlagFields |-> FALSE]]

InitClassify ==
    /\ input \in ClassifiedRows
    /\ output = NoKind
    /\ FlowIdle

\* fetchScrapedDataSheet computes the flags of the header row and decides
\* whether to read the tab
Classify ==
    /\ ~output.done
    /\ output' = [done |-> TRUE, kind |-> scrapedSheetKind(input),
                  flags |-> [f \in DOMAIN FlagFields |-> scrapedFlags(input)[f]]]
    /\ UNCHANGED << input, flowVars >>

NextClassify == Classify

SpecClassify == InitClassify /\ [][NextClassify]_vars

(***************************************************************************)
(* C25: on every header row each presence flag (first name, last name,     *)
(* profile URL, post URL, post author) is true exactly when getCell finds  *)
(* a column for the flag's field; so a tab whose name column and URL       *)
(* column the builder can resolve is never skipped as unrecognized.        *)
(***************************************************************************)
C25_FlagsAreResolver ==
    output.done =>
        LET found(f) == getCellIndex(input, FlagFields[f]) # -1
        IN  /\ \A f \in DOMAIN FlagFields : output.flags[f] <=> found(f)
            /\ ( /\ found("hasFirstName") \/ found("hasLastName")
                 /\ found("hasProfileUrl") \/ found("hasLinkedInPost")
                        \/ found("hasLinkedInPostUser") )
               => output.kind # "none"

(***************************************************************************)
(* The write POST prepares, on bounded exports and request bodies          *)
(***************************************************************************)
\* the identity fields of a request body: none, those of a row filled with
\* 'x', and others
WriteNames == { << >>, <<"x">>, <<"z">> }

NoPrepared == [done |-> FALSE, prepared |-> [error |-> "none", write |-> NoWrite]]

InitWrite ==
    /\ \E headers \in WriteHeaders, names \in WriteNames :
         input \in [rows : WalkGrids(headers, MaxWalkRows),
                    body : [rowId : 1..(MaxWalkRows + 1), approval : selectOptions,
                            linkedinPost : { names }, firstName : { names },
                            lastName : { names }],
                    url : { <<"u">> }]
    /\ output = NoPrepared
    /\ FlowIdle

\* POST resolves the row of the request on the export and prepares the
\* updateData it sends to the sink
PrepareWrite ==
    /\ ~output.done
    /\ output' = [done |-> TRUE,
                  prepared |-> postPrepare(input.rows, input.body, input.url)]
    /\ UNCHANGED << input, flowVars >>

NextWrite == PrepareWrite

SpecWrite == InitWrite /\ [][NextWrite]_vars

(***************************************************************************)
(* C27: an update that reaches the sink issues one write request: its row  *)
(* is the 1-based sheet row of the resolved row (the header being row 1),  *)
(* its column the 1-based index of the approval column, its value          *)
(* 'Approved' for the target pending and 'Rejected' for the target         *)
(* rejected; the same write is issued when the name and post fields of the *)
(* request do not match the resolved row.                                  *)
(***************************************************************************)
C27_WriteOfResolvedRow ==
    (output.done /\ output.prepared.error = "none") =>
        LET rows    == input.rows
            counted == rowsWhere(rows, LAMBDA i : postCounts(rows[i + 1], postColumns(rows[1])))
            write   == output.prepared.write
        IN  /\ input.body.rowId <= Len(counted)
            /\ write.row = counted[input.body.rowId] + 1
            /\ write.column \in 1..Len(rows[1])
            /\ includes(trim(toLowerCase(rows[1][write.column])), <<"a","p","p","r","o","v","a","l">>)
            /\ \A c \in 1..(write.column - 1) :
                   ~includes(trim(toLowerCase(rows[1][c])), <<"a","p","p","r","o","v","a","l">>)
            /\ write.value = IF input.body.approval = "approval" THEN <<"A","p","p","r","o","v","e","d">>
                             ELSE <<"R","e","j","e","c","t","e","d">>

\* a blank row, then a row of 'x' cells, resolved for ordinal 1 of a request
\* that names 'z': sheet row 3, column 4
C27_Witness ==
    /\ output.done
    /\ input.rows[1] = << <<"L","i","n","k","e","d","i","n"," ","P","o","s","t">>, <<"F","i","r","s","t"," ","N","a","m","e">>, <<"L","a","s","t"," ","N","a","m","e">>, <<"A","p","p","r","o","v","a","l">> >>
    /\ Len(input.rows) = 3
    /\ isEmptyRow(input.rows[2])
    /\ input.rows[3] = << <<"x">>, <<"x">>, <<"x">>, << >> >>
    /\ input.body.rowId = 1
    /\ input.body.firstName = <<"z">>
    /\ input.body.approval = "reject"
    /\ output.prepared = [error |-> "none",
                          write |-> [row |-> 3, column |-> 4, value |-> <<"R","e","j","e","c","t","e","d">>]]

(***************************************************************************)
(* C29: on every header row the column the endpoint writes the approval    *)
(* to is the column the message builder read the entry's approval from,    *)
(* also when several columns have 'approval' in their names.               *)
(***************************************************************************)
C29_WritesColumnRead ==
    (output.done /\ output.prepared.error = "none") =>
        output.prepared.write.column = builderApprovalColumn[input.rows[1]] + 1

(***************************************************************************)
(* The merge, applied to entries whose fields contain the separator of the *)
(* key                                                                     *)
(***************************************************************************)
\* entries in the list of profile entries handed to the merge
MaxDedup == 2

\* identifying fields with and without '_'
DedupIdentities ==
    [LinkedinPost : { <<"p">>, <<"p","_","a">> },
     FirstName    : { <<"a">>, <<"a","_","b">>, <<"b">> },
     LastName     : { <<"c">>, <<"b","_","c">> }]

\* the lists of n or fewer such entries, with the ordinals of a builder
RECURSIVE DedupLists(_)
DedupLists(n) ==
    IF n = 0 THEN { << >> }
    ELSE DedupLists(n - 1)
            \cup { Append(l, [rowId |-> n, ProfileURL |-> <<"u">>] @@ e) :
                       l \in { h \in DedupLists(n - 1) : Len(h) = n - 1 },
                       e \in DedupIdentities }

InitDedup ==
    /\ input \in [scrapedData : DedupLists(MaxDedup), dmData : DedupLists(1)]
    /\ output = NoMerged
    /\ FlowIdle

NextDedup == MergeLeads

SpecDedup == InitDedup /\ [][NextDedup]_vars

(***************************************************************************)
(* C28: the merge never collapses two entries whose (postUrl, firstName,   *)
(* lastName) triples differ: every triple of the two lists is the triple   *)
(* of a merged lead, also when the fields contain the separator '_' of the *)
(* key.                                                                    *)
(***************************************************************************)
C28_DistinctTriplesKept ==
    output.done =>
        \A entry \in { input.scrapedData[k] : k \in 1..Len(input.scrapedData) }
                        \cup { input.dmData[k] : k \in 1..Len(input.dmData) } :
            \E k \in 1..Len(output.merged) :
                /\ output.merged[k].LinkedinPost = entry.LinkedinPost
                /\ output.merged[k].FirstName = entry.FirstName
                /\ output.merged[k].LastName = entry.LastName

(***************************************************************************)
(* C30: whenever no update is in flight, the local approval state of every *)
(* message entry is the value the sink holds for the entry's row as a      *)
(* result of the writes of this session (the loaded value if none of them  *)
(* succeeded), for every interleaving of update starts, sink arrivals,     *)
(* successes and failures on one or more entries.                          *)
(***************************************************************************)
C30_LocalIsSinkValue ==
    requests = {} =>
        LET held == fetchSendMessageData(export(sheet))
        IN  /\ Len(held) = Len(localSendMessageData)
            /\ \A k \in 1..Len(held) :
                   localSendMessageData[k].Approval = held[k].Approval

====
